---- MODULE Spec2Model ----
(***************************************************************************)
(* Frame/batch lifecycle and coordinate translation of the pygame-like     *)
(* shim of PyNovaGE (src/python_bindings/pynovage/pygame_like.py).         *)
(*                                                                         *)
(* The module globals of pygame_like.py are the state.  The window, the    *)
(* renderer and the batch renderer live in the compiled core, which the    *)
(* shim only calls: they are modelled by what the shim does to them, i.e.  *)
(* by the sequence of calls it issues.  `renderer` records the effect of   *)
(* that call sequence (frame begun/ended, batch begun/ended, primitives    *)
(* appended since the last flush, batches flushed, buffers swapped).       *)
(*                                                                         *)
(* Numbers are Python floats in the source: every coordinate goes through  *)
(* float() and the sums and differences are rounded to the nearest float.  *)
(* A float keeps MantissaBits = 53 significant bits.  Whole numbers are    *)
(* integers, on which float() and the float sums and differences are       *)
(* exact as long as the result has no more than 53 bits; the coordinate    *)
(* mapping is also run on fractional coordinates, kept exactly as          *)
(* sign, binary digits and exponent and rounded as a float operation       *)
(* rounds.                                                                 *)
(* A point is <<x, y, r, k>> and stands for                                *)
(*     (x + r*cos(k*2*pi/segments), y + r*sin(k*2*pi/segments)),           *)
(* so that the samples of an outline circle are kept exactly; an ordinary  *)
(* point is <<x, y, 0, 0>>.  Colours are passed through untouched by       *)
(* every draw function (Color.to_vector4f) and are left out of the calls.  *)
(***************************************************************************)
EXTENDS Integers, Sequences, FiniteSets, TLC

(* ------------------------------ bounds -------------------------------- *)
\* display_set_mode calls that get past the window-system check
MaxSetMode == 2
\* draw calls that append to the batch renderer
MaxDraws == 2
\* display_flip / display_update calls that swap buffers
MaxFlips == 2

(* ------------------------- values and inputs -------------------------- *)
\* Python's None, for _window, _input_manager, _screen_surface
None == 0
\* a Surface made by make_surface: never the display surface
OffscreenSurface == -1

Pt(x, y) == <<x, y, 0, 0>>

(* ------------------------------ floats -------------------------------- *)
\* significant bits a Python float keeps (sys.float_info.mant_dig)
MantissaBits == 53

Abs(n) == IF n < 0 THEN -n ELSE n

RECURSIVE BitLength(_)
BitLength(n) == IF n = 0 THEN 0 ELSE 1 + BitLength(n \div 2)

\* A float that need not be a whole number is kept exactly, as the record
\* [neg, bits, e]: (-1)^neg * m * 2^e, where bits are the binary digits of
\* the odd natural number m, lowest first (zero: no bits, e = 0).  Natural
\* numbers of any size are sequences of binary digits, lowest first.
RECURSIVE NatBits(_)
NatBits(n) == IF n = 0 THEN <<>> ELSE <<n % 2>> \o NatBits(n \div 2)

RECURSIVE BitsNat(_)
BitsNat(b) == IF b = <<>> THEN 0 ELSE Head(b) + 2 * BitsNat(Tail(b))

\* without its high zeros
RECURSIVE Trim(_)
Trim(b) ==
    IF b = <<>> \/ b[Len(b)] = 1 THEN b ELSE Trim(SubSeq(b, 1, Len(b) - 1))

\* the number of its low zeros
RECURSIVE LowZeros(_)
LowZeros(b) == IF b = <<>> \/ Head(b) = 1 THEN 0 ELSE 1 + LowZeros(Tail(b))

Zeros(k) == [i \in 1..k |-> 0]

\* a + b + c, c a carry of 0 or 1
RECURSIVE BitsAdd(_, _, _)
BitsAdd(a, b, c) ==
    IF a = <<>> /\ b = <<>> THEN (IF c = 1 THEN <<1>> ELSE <<>>)
    ELSE LET x == IF a = <<>> THEN 0 ELSE Head(a)
             y == IF b = <<>> THEN 0 ELSE Head(b)
             t == x + y + c
         IN  <<t % 2>> \o BitsAdd(IF a = <<>> THEN <<>> ELSE Tail(a),
                                  IF b = <<>> THEN <<>> ELSE Tail(b),
                                  t \div 2)

\* a - b - c for a >= b + c, c a borrow of 0 or 1
RECURSIVE BitsSub(_, _, _)
BitsSub(a, b, c) ==
    IF a = <<>> THEN <<>>
    ELSE LET y == IF b = <<>> THEN 0 ELSE Head(b)
             t == Head(a) - y - c
         IN  <<t % 2>> \o BitsSub(Tail(a),
                                  IF b = <<>> THEN <<>> ELSE Tail(b),
                                  IF t < 0 THEN 1 ELSE 0)

\* a < b, for a and b without high zeros
RECURSIVE LessFrom(_, _, _)
LessFrom(a, b, i) ==
    IF i = 0 THEN FALSE
    ELSE IF a[i] # b[i] THEN a[i] < b[i]
    ELSE LessFrom(a, b, i - 1)

BitsLess(a, b) ==
    IF Len(a) # Len(b) THEN Len(a) < Len(b) ELSE LessFrom(a, b, Len(a))

\* the record of (-1)^neg * bits * 2^e
Normal(neg, bits, e) ==
    LET t == Trim(bits)
        z == LowZeros(t)
    IN  IF t = <<>> THEN [neg |-> FALSE, bits |-> <<>>, e |-> 0]
        ELSE [neg |-> neg, bits |-> SubSeq(t, z + 1, Len(t)), e |-> e + z]

\* m * 2^e for an integer m
Dyadic(m, e) == Normal(m < 0, NatBits(Abs(m)), e)

\* x + y and x - y, exactly
DyAdd(x, y) ==
    LET e0 == IF x.e < y.e THEN x.e ELSE y.e
        a  == Trim(Zeros(x.e - e0) \o x.bits)
        b  == Trim(Zeros(y.e - e0) \o y.bits)
    IN  IF x.neg = y.neg THEN Normal(x.neg, BitsAdd(a, b, 0), e0)
        ELSE IF BitsLess(a, b) THEN Normal(y.neg, BitsSub(b, a, 0), e0)
        ELSE Normal(x.neg, BitsSub(a, b, 0), e0)

DyNeg(y) == IF y.bits = <<>> THEN y ELSE [y EXCEPT !.neg = ~@]

DySub(x, y) == DyAdd(x, DyNeg(y))

DyLeq(x, y) == ~DySub(y, x).neg

\* the nearest number with n significant bits, ties to the even mantissa
\* (the exponents met here are far inside a float's range)
RoundTo(d, n) ==
    LET len == Len(d.bits)
        k   == len - n
    IN  IF k <= 0 THEN d
        ELSE LET q    == SubSeq(d.bits, k + 1, len)
                 more == \E i \in 1..(k - 1) : d.bits[i] = 1
                 up   == d.bits[k] = 1 /\ (more \/ q[1] = 1)
             IN  Normal(d.neg, IF up THEN BitsAdd(q, <<1>>, 0) ELSE q,
                        d.e + k)

\* the result of a float operation whose exact result is d
RoundDyadic(d) == RoundTo(d, MantissaBits)

\* d is a float
Representable(d) == RoundDyadic(d) = d

\* the whole number d, as an integer
Whole(d) ==
    IF d.neg THEN -(BitsNat(d.bits) * 2 ^ d.e) ELSE BitsNat(d.bits) * 2 ^ d.e

\* float(n) for an integer n: n itself when it has no more than MantissaBits
\* significant bits, as every integer below 2^31 has
RoundFloat(n) ==
    IF BitLength(Abs(n)) <= MantissaBits THEN n
    ELSE Whole(RoundDyadic(Dyadic(n, 0)))

\* a - b and a + b on floats that are whole numbers
FSub(a, b) == RoundFloat(a - b)
FAdd(a, b) == RoundFloat(a + b)

\* a float subtraction that keeps one bit less than a float has
DFSub_DropsLastBit(a, b) == RoundTo(DySub(a, b), MantissaBits - 1)

\* a - b on floats of any kind
DFSub(a, b) == RoundDyadic(DySub(a, b))

\* a + b on floats of any kind
DFAdd(a, b) == RoundDyadic(DyAdd(a, b))

\* the y of a point seen from the bottom edge of a viewport of height
\* screen_h: float(screen_h) - float(y)
FlipY(y, screen_h) == FSub(RoundFloat(screen_h), RoundFloat(y))

\* the same for a y that need not be a whole number: screen_h is the
\* integer of _screen_size, y a float or the float of a number
DFlipY(y, screen_h) ==
    DFSub(RoundDyadic(Dyadic(screen_h, 0)), RoundDyadic(y))

\* requested display sizes and the framebuffer sizes the window may report
Sizes == {<<8, 6>>}
FramebufferSizes == {<<8, 6>>, <<16, 12>>}
\* the arguments of the draw calls of the lifecycle specification:
\* rectangles (x, y, width, height), line widths (0: filled), segments
\* (start, end), centres, radii and point lists
Rects == {<<1, 1, 2, 3>>}
Widths == {0, 2}
Lines == {<<<<1, 2>>, <<3, 5>>>>}
LineWidths == {1}
Centers == {<<3, 2>>}
Radii == {2}
CircleWidths == {0}
PointLists == {<<>>, <<<<1, 1>>, <<3, 1>>, <<2, 4>>>>}
PolygonWidths == {0}

\* the arguments of the draw calls of the translation specification
TViewports == {<<8, 6>>, <<800, 600>>}
TRects == {<<100, 50, 200, 80>>, <<1, 1, 2, 3>>, <<0, 0, 8, 6>>,
           <<3, 2, 0, 0>>}
TWidths == {-1, 0, 1, 3}
TLines == {<<<<1, 2>>, <<3, 5>>>>, <<<<0, 0>>, <<800, 600>>>>,
           <<<<100, 50>>, <<100, 50>>>>}
TLineWidths == {0, 1, 3}
TCenters == {<<400, 300>>, <<3, 2>>, <<0, 600>>}
TRadii == {0, 2, 50}
TCircleWidths == {0, 2}
TPointLists == {<<>>, <<<<5, 5>>>>, <<<<1, 1>>, <<3, 1>>>>,
                <<<<1, 1>>, <<3, 1>>, <<2, 4>>>>,
                <<<<100, 50>>, <<300, 50>>, <<300, 130>>, <<100, 130>>>>}
TPolygonWidths == {-1, 0, 1, 2}
\* segment counts a caller may ask of draw_circle
TSegments == {16, 32}
\* viewports and points of the coordinate mapping specification
MViewports == {<<8, 6>>, <<800, 600>>, <<4096, 2048>>}
\* points of whole and of fractional coordinates: (0, 0), (3, 5),
\* (100, 50), (800, 600), (1, 2^-52), (0.5, 2^-50), (2, 2^-44), (1.25, 1.5)
MPoints == {<<Dyadic(0, 0), Dyadic(0, 0)>>,
            <<Dyadic(3, 0), Dyadic(5, 0)>>,
            <<Dyadic(100, 0), Dyadic(50, 0)>>,
            <<Dyadic(800, 0), Dyadic(600, 0)>>,
            <<Dyadic(1, 0), Dyadic(1, -52)>>,
            <<Dyadic(1, -1), Dyadic(1, -50)>>,
            <<Dyadic(2, 0), Dyadic(1, -44)>>,
            <<Dyadic(5, -2), Dyadic(3, -1)>>}
MLineWidths == {1}
\* the floats 0.1 and 0.2: 0x1999999999999a * 2^-56 and twice that
Tenth == DyAdd(Dyadic(26843545, -28), Dyadic(161061274, -56))
Fifth == DyAdd(Dyadic(26843545, -27), Dyadic(161061274, -55))
\* rectangles (x, y, w, h) of whole and of fractional coordinates:
\* (100, 50, 200, 80), (1, 1, 2, 3), (0, 0, 8, 6), (0.5, 1.5, 2.25, 0.75),
\* (0.5, 2^-50, 2.25, 1), (1, 1, 2^-53, 1), (0.1, 0.1, 0.2, 0.2)
MRects == {<<Dyadic(100, 0), Dyadic(50, 0), Dyadic(200, 0), Dyadic(80, 0)>>,
           <<Dyadic(1, 0), Dyadic(1, 0), Dyadic(2, 0), Dyadic(3, 0)>>,
           <<Dyadic(0, 0), Dyadic(0, 0), Dyadic(8, 0), Dyadic(6, 0)>>,
           <<Dyadic(1, -1), Dyadic(3, -1), Dyadic(9, -2), Dyadic(3, -2)>>,
           <<Dyadic(1, -1), Dyadic(1, -50), Dyadic(9, -2), Dyadic(1, 0)>>,
           <<Dyadic(1, 0), Dyadic(1, 0), Dyadic(1, -53), Dyadic(1, 0)>>,
           <<Tenth, Tenth, Fifth, Fifth>>}
MRectWidths == {0, 2}

VARIABLES
    window,                 \* _window: None or the Window (numbered)
    window_system_guard,    \* _window_system_guard: "None", "Ok", "Failed"
    renderer_guard,         \* _renderer_guard: "None", "Ok", "Failed"
    input_manager,          \* _input_manager: None or the window it wraps
    screen_surface,         \* _screen_surface: None or the Surface (numbered)
    screen_size,            \* _screen_size
    batch_started,          \* _batch_started
    renderer,               \* what the calls issued so far did to the core
    created,                \* windows/surfaces created so far
    lastOp,                 \* the public call made last, with its arguments
    calls,                  \* the core calls that call issued, in order
    result,                 \* how it ended: "ok" or "RuntimeError"
    flip_pc,                \* a display_flip run statement by statement on
                            \* a thread of its own: "idle", or what is next
    draw_pc                 \* a draw call run call by call on another
                            \* thread: the call and what it has yet to issue

vars == <<window, window_system_guard, renderer_guard, input_manager,
          screen_surface, screen_size, batch_started, renderer, created,
          lastOp, calls, result, flip_pc, draw_pc>>

shim == <<window, window_system_guard, renderer_guard, input_manager,
          screen_surface, screen_size, batch_started>>

(* --------------------------- the core calls --------------------------- *)
Call(op) == [op |-> op, p |-> Pt(0, 0), q |-> Pt(0, 0), t |-> 0,
             vp |-> <<0, 0>>, id |-> 0]

AppendOps == {"add_rect_screen", "add_circle_screen", "add_line_screen"}

\* The primitive a draw call appends is kept in the batch by its identity
\* <<id, k>>: the k-th primitive of the id-th appending draw call.  Its
\* arguments are those of the call, kept in `calls`.
Stamp(pending, id) ==
    <<id, 1 + Cardinality({i \in DOMAIN pending : pending[i][1] = id})>>

\* One call reaching the core.  A frame is open from begin_frame to
\* end_frame, a batch from begin_batch to end_batch; flush_batch submits
\* what was appended since the last flush (`flushed` is the batch submitted
\* last, `flushes` the number of batches submitted).
ApplyCall(R, c) ==
    LET R1 == [R EXCEPT !.last = c.op,
                        !.closedFrame = (c.op = "end_frame" /\ R.frameOpen)]
    IN  CASE c.op = "begin_frame" ->
               [R1 EXCEPT !.frameOpen = TRUE,
                          !.errs = IF R.frameOpen
                                   THEN @ \cup {"begin_frame while open"}
                                   ELSE @]
          [] c.op = "end_frame" ->
               [R1 EXCEPT !.frameOpen = FALSE,
                          !.errs = IF ~R.frameOpen
                                   THEN @ \cup {"end_frame while closed"}
                                   ELSE @]
          [] c.op = "swap_buffers" ->
               [R1 EXCEPT !.swaps = @ + 1,
                          !.errs = IF ~(R.last = "end_frame" /\ R.closedFrame)
                                   THEN @ \cup {"swap without end_frame"}
                                   ELSE @]
          [] c.op = "begin_batch" ->
               [R1 EXCEPT !.batchOpen = TRUE,
                          !.errs = IF R.batchOpen
                                   THEN @ \cup {"begin_batch while open"}
                                   ELSE @]
          [] c.op = "end_batch" ->
               [R1 EXCEPT !.batchOpen = FALSE]
          [] c.op = "flush_batch" ->
               [R1 EXCEPT !.flushed = R.pending,
                          !.flushes = @ + 1,
                          !.pending = <<>>]
          [] c.op \in AppendOps ->
               [R1 EXCEPT !.pending = Append(@, Stamp(R.pending, c.id)),
                          !.draws = IF c.id > @ THEN c.id ELSE @]
          [] OTHER -> R1

RECURSIVE ApplyCalls(_, _)
ApplyCalls(R, cs) ==
    IF cs = <<>> THEN R
    ELSE ApplyCalls(ApplyCall(R, Head(cs)), Tail(cs))

\* pynovage.renderer.get_batch_renderer(): the batch renderer of the
\* initialized renderer, None when there is none
get_batch_renderer == renderer_guard = "Ok"

(* ------------------------------- Init --------------------------------- *)
\* no draw call is in progress on the other thread
NoDraw == [op |-> [name |-> "", surface |-> None], todo |-> <<>>]

Init ==
    /\ window = None
    /\ window_system_guard = "None"
    /\ renderer_guard = "None"
    /\ input_manager = None
    /\ screen_surface = None
    /\ screen_size = <<0, 0>>
    /\ batch_started = FALSE
    /\ renderer = [frameOpen |-> FALSE, batchOpen |-> FALSE,
                   pending |-> <<>>, flushed |-> <<>>, flushes |-> 0,
                   swaps |-> 0,
                   draws |-> 0, last |-> "", closedFrame |-> FALSE,
                   errs |-> {}]
    /\ created = 0
    /\ lastOp = [name |-> "import", surface |-> None]
    /\ calls = <<>>
    /\ result = "ok"
    /\ flip_pc = "idle"
    /\ draw_pc = NoDraw

Op(name) == [name |-> name, surface |-> None]

\* what every public call does besides its own assignments: the calls it
\* issued reach the core, and the call and its outcome are noted.  A call
\* run as a whole does not move a call that another thread is in.
Done(op, cs, res) ==
    /\ renderer' = ApplyCalls(renderer, cs)
    /\ calls' = cs
    /\ lastOp' = op
    /\ result' = res
    /\ UNCHANGED <<flip_pc, draw_pc>>

(* ------------------------------ init() -------------------------------- *)
init(wsOk) ==
    IF window_system_guard = "None"
    THEN /\ window_system_guard' = IF wsOk THEN "Ok" ELSE "Failed"
         /\ Done(Op("init"), <<Call("WindowSystemGuard")>>,
                 IF wsOk THEN "ok" ELSE "RuntimeError")
         /\ UNCHANGED <<window, renderer_guard, input_manager, screen_surface,
                        screen_size, batch_started, created>>
    ELSE /\ Done(Op("init"), <<>>, "ok")
         /\ UNCHANGED <<shim, created>>

(* ------------------------------ quit() -------------------------------- *)
\* quit() that forgets to release the renderer guard
quit_KeepsRenderer ==
    /\ window' = None
    /\ input_manager' = None
    /\ screen_surface' = None
    /\ window_system_guard' = "None"
    /\ Done(Op("quit"), <<>>, "ok")
    /\ UNCHANGED <<renderer_guard, screen_size, batch_started, created>>

\* quit() that also forgets the viewport
quit_ResetsViewport ==
    /\ window' = None
    /\ input_manager' = None
    /\ screen_surface' = None
    /\ renderer_guard' = "None"
    /\ window_system_guard' = "None"
    /\ screen_size' = <<0, 0>>
    /\ Done(Op("quit"), <<>>, "ok")
    /\ UNCHANGED <<batch_started, created>>

\* quit() that closes and submits the open batch before it lets go
quit_FlushesFirst ==
    /\ window' = None
    /\ input_manager' = None
    /\ screen_surface' = None
    /\ renderer_guard' = "None"
    /\ window_system_guard' = "None"
    /\ Done(Op("quit"),
            IF get_batch_renderer /\ batch_started
            THEN <<Call("get_batch_renderer"), Call("end_batch"),
                   Call("flush_batch")>>
            ELSE <<>>,
            "ok")
    /\ UNCHANGED <<screen_size, batch_started, created>>

quit ==
    /\ window' = None
    /\ input_manager' = None
    /\ screen_surface' = None
    /\ renderer_guard' = "None"
    /\ window_system_guard' = "None"
    /\ Done(Op("quit"), <<>>, "ok")
    /\ UNCHANGED <<screen_size, batch_started, created>>

(* ------------------------- display_set_mode --------------------------- *)
\* display_set_mode that begins the batch before the frame
display_set_mode_BatchFirst(size, fb, rOk) ==
    LET op == Op("display_set_mode")
        n  == created + 1
    IN
    /\ created < MaxSetMode
    /\ IF window_system_guard # "Ok"
       THEN \* raise RuntimeError("PyNovaGE not initialized. Call init() first.")
            /\ Done(op, <<>>, "RuntimeError")
            /\ UNCHANGED <<shim, created>>
       ELSE /\ window' = n
            /\ created' = n
            /\ renderer_guard' = IF rOk THEN "Ok" ELSE "Failed"
            /\ UNCHANGED window_system_guard
            /\ IF ~rOk
               THEN \* raise RuntimeError("Failed to initialize renderer")
                    /\ Done(op, <<Call("Window"), Call("show"),
                                  Call("RendererGuard")>>, "RuntimeError")
                    /\ UNCHANGED <<input_manager, screen_surface,
                                   screen_size, batch_started>>
               ELSE /\ screen_size' = fb
                    /\ input_manager' = n
                    /\ screen_surface' = n
                    /\ batch_started' = TRUE
                    /\ Done(op,
                            <<Call("Window"), Call("show"),
                              Call("RendererGuard"),
                              Call("get_framebuffer_size"),
                              [Call("set_viewport") EXCEPT
                                  !.q = Pt(fb[1], fb[2])],
                              Call("InputManager"),
                              Call("get_batch_renderer"),
                              Call("begin_batch"),
                              Call("begin_frame")>>,
                            "ok")

\* display_set_mode that looks at the RendererGuard only after it has
\* set the viewport and begun the frame
display_set_mode_LateCheck(size, fb, rOk) ==
    LET op == Op("display_set_mode")
        n  == created + 1
    IN
    /\ created < MaxSetMode
    /\ IF window_system_guard # "Ok"
       THEN \* raise RuntimeError("PyNovaGE not initialized. Call init() first.")
            /\ Done(op, <<>>, "RuntimeError")
            /\ UNCHANGED <<shim, created>>
       ELSE /\ window' = n
            /\ created' = n
            /\ renderer_guard' = IF rOk THEN "Ok" ELSE "Failed"
            /\ UNCHANGED window_system_guard
            /\ IF ~rOk
               THEN \* raise RuntimeError("Failed to initialize renderer")
                    /\ screen_size' = fb
                    /\ Done(op, <<Call("Window"), Call("show"),
                                  Call("RendererGuard"),
                                  Call("get_framebuffer_size"),
                                  [Call("set_viewport") EXCEPT
                                      !.q = Pt(fb[1], fb[2])],
                                  Call("InputManager"),
                                  Call("begin_frame")>>, "RuntimeError")
                    /\ UNCHANGED <<input_manager, screen_surface,
                                   batch_started>>
               ELSE /\ screen_size' = fb
                    /\ input_manager' = n
                    /\ screen_surface' = n
                    /\ batch_started' = TRUE
                    /\ Done(op,
                            <<Call("Window"), Call("show"),
                              Call("RendererGuard"),
                              Call("get_framebuffer_size"),
                              [Call("set_viewport") EXCEPT
                                  !.q = Pt(fb[1], fb[2])],
                              Call("InputManager"),
                              Call("begin_frame"),
                              Call("get_batch_renderer"),
                              Call("begin_batch")>>,
                            "ok")

\* display_set_mode that only tests that a WindowSystemGuard exists, not
\* that it is initialized
display_set_mode_NoInitCheck(size, fb, rOk) ==
    LET op == Op("display_set_mode")
        n  == created + 1
    IN
    /\ created < MaxSetMode
    /\ IF window_system_guard = "None"
       THEN \* raise RuntimeError("PyNovaGE not initialized. Call init() first.")
            /\ Done(op, <<>>, "RuntimeError")
            /\ UNCHANGED <<shim, created>>
       ELSE /\ window' = n
            /\ created' = n
            /\ renderer_guard' = IF rOk THEN "Ok" ELSE "Failed"
            /\ UNCHANGED window_system_guard
            /\ IF ~rOk
               THEN \* raise RuntimeError("Failed to initialize renderer")
                    /\ Done(op, <<Call("Window"), Call("show"),
                                  Call("RendererGuard")>>, "RuntimeError")
                    /\ UNCHANGED <<input_manager, screen_surface,
                                   screen_size, batch_started>>
               ELSE /\ screen_size' = fb
                    /\ input_manager' = n
                    /\ screen_surface' = n
                    /\ batch_started' = TRUE
                    /\ Done(op,
                            <<Call("Window"), Call("show"),
                              Call("RendererGuard"),
                              Call("get_framebuffer_size"),
                              [Call("set_viewport") EXCEPT
                                  !.q = Pt(fb[1], fb[2])],
                              Call("InputManager"),
                              Call("begin_frame"),
                              Call("get_batch_renderer"),
                              Call("begin_batch")>>,
                            "ok")

\* display_set_mode that records the size asked for instead of the
\* framebuffer size of the window
display_set_mode_RequestedSize(size, fb, rOk) ==
    LET op == Op("display_set_mode")
        n  == created + 1
    IN
    /\ created < MaxSetMode
    /\ IF window_system_guard # "Ok"
       THEN \* raise RuntimeError("PyNovaGE not initialized. Call init() first.")
            /\ Done(op, <<>>, "RuntimeError")
            /\ UNCHANGED <<shim, created>>
       ELSE /\ window' = n
            /\ created' = n
            /\ renderer_guard' = IF rOk THEN "Ok" ELSE "Failed"
            /\ UNCHANGED window_system_guard
            /\ IF ~rOk
               THEN \* raise RuntimeError("Failed to initialize renderer")
                    /\ Done(op, <<Call("Window"), Call("show"),
                                  Call("RendererGuard")>>, "RuntimeError")
                    /\ UNCHANGED <<input_manager, screen_surface,
                                   screen_size, batch_started>>
               ELSE /\ screen_size' = size
                    /\ input_manager' = n
                    /\ screen_surface' = n
                    /\ batch_started' = TRUE
                    /\ Done(op,
                            <<Call("Window"), Call("show"),
                              Call("RendererGuard"),
                              Call("get_framebuffer_size"),
                              [Call("set_viewport") EXCEPT
                                  !.q = Pt(fb[1], fb[2])],
                              Call("InputManager"),
                              Call("begin_frame"),
                              Call("get_batch_renderer"),
                              Call("begin_batch")>>,
                            "ok")

\* size: the requested size; fb: what _window.get_framebuffer_size()
\* reports; rOk: whether the new RendererGuard reports initialized
display_set_mode(size, fb, rOk) ==
    LET op == Op("display_set_mode")
        n  == created + 1
    IN
    /\ created < MaxSetMode
    /\ IF window_system_guard # "Ok"
       THEN \* raise RuntimeError("PyNovaGE not initialized. Call init() first.")
            /\ Done(op, <<>>, "RuntimeError")
            /\ UNCHANGED <<shim, created>>
       ELSE /\ window' = n
            /\ created' = n
            /\ renderer_guard' = IF rOk THEN "Ok" ELSE "Failed"
            /\ UNCHANGED window_system_guard
            /\ IF ~rOk
               THEN \* raise RuntimeError("Failed to initialize renderer")
                    /\ Done(op, <<Call("Window"), Call("show"),
                                  Call("RendererGuard")>>, "RuntimeError")
                    /\ UNCHANGED <<input_manager, screen_surface,
                                   screen_size, batch_started>>
               ELSE /\ screen_size' = fb
                    /\ input_manager' = n
                    /\ screen_surface' = n
                    /\ batch_started' = TRUE
                    /\ Done(op,
                            <<Call("Window"), Call("show"),
                              Call("RendererGuard"),
                              Call("get_framebuffer_size"),
                              [Call("set_viewport") EXCEPT
                                  !.q = Pt(fb[1], fb[2])],
                              Call("InputManager"),
                              Call("begin_frame"),
                              Call("get_batch_renderer"),
                              Call("begin_batch")>>,
                            "ok")

(* --------------------------- display_flip ----------------------------- *)
\* display_flip that ends the batch but never submits it
flip_calls_NoFlush ==
    IF window = None THEN <<>>
    ELSE LET br == get_batch_renderer IN
         <<Call("get_batch_renderer")>>
         \o (IF br /\ batch_started THEN <<Call("end_batch")>> ELSE <<>>)
         \o <<Call("end_frame"), Call("swap_buffers"), Call("begin_frame")>>
         \o (IF br THEN <<Call("begin_batch")>> ELSE <<>>)

\* display_flip that swaps the buffers before it ends the frame
flip_calls_SwapFirst ==
    IF window = None THEN <<>>
    ELSE LET br == get_batch_renderer IN
         <<Call("get_batch_renderer")>>
         \o (IF br /\ batch_started
             THEN <<Call("end_batch"), Call("flush_batch")>> ELSE <<>>)
         \o <<Call("swap_buffers"), Call("end_frame"), Call("begin_frame")>>
         \o (IF br THEN <<Call("begin_batch")>> ELSE <<>>)

\* display_flip that begins the next frame but no batch
flip_calls_NoReopen ==
    IF window = None THEN <<>>
    ELSE LET br == get_batch_renderer IN
         <<Call("get_batch_renderer")>>
         \o (IF br /\ batch_started
             THEN <<Call("end_batch"), Call("flush_batch")>> ELSE <<>>)
         \o <<Call("end_frame"), Call("swap_buffers"), Call("begin_frame")>>

\* display_flip that skips the flush when nothing was drawn
flip_calls_SkipEmpty ==
    IF window = None THEN <<>>
    ELSE LET br == get_batch_renderer IN
         <<Call("get_batch_renderer")>>
         \o (IF br /\ batch_started /\ renderer.pending # <<>>
             THEN <<Call("end_batch"), Call("flush_batch")>> ELSE <<>>)
         \o <<Call("end_frame"), Call("swap_buffers"), Call("begin_frame")>>
         \o (IF br THEN <<Call("begin_batch")>> ELSE <<>>)

\* display_flip that ends the frame before it flushes the batch
flip_calls_FlushAfterFrame ==
    IF window = None THEN <<>>
    ELSE LET br == get_batch_renderer IN
         <<Call("get_batch_renderer")>>
         \o (IF br /\ batch_started THEN <<Call("end_batch")>> ELSE <<>>)
         \o <<Call("end_frame")>>
         \o (IF br /\ batch_started THEN <<Call("flush_batch")>> ELSE <<>>)
         \o <<Call("swap_buffers"), Call("begin_frame")>>
         \o (IF br THEN <<Call("begin_batch")>> ELSE <<>>)

\* the calls of display_flip, lines 164-182
flip_calls ==
    IF window = None THEN <<>>
    ELSE LET br == get_batch_renderer IN
         <<Call("get_batch_renderer")>>
         \o (IF br /\ batch_started
             THEN <<Call("end_batch"), Call("flush_batch")>> ELSE <<>>)
         \o <<Call("end_frame"), Call("swap_buffers"), Call("begin_frame")>>
         \o (IF br THEN <<Call("begin_batch")>> ELSE <<>>)

flip_body(name) ==
    /\ window # None => renderer.swaps < MaxFlips
    /\ batch_started' = IF window = None THEN batch_started
                        ELSE IF get_batch_renderer THEN TRUE
                        ELSE batch_started
    /\ Done(Op(name), flip_calls, "ok")
    /\ UNCHANGED <<window, window_system_guard, renderer_guard,
                   input_manager, screen_surface, screen_size, created>>

display_flip == flip_body("display_flip")

\* display_update(): "currently same as flip()"
display_update == flip_body("display_update")

\* display_flip during which the core raises in end_batch or in
\* flush_batch (`where`).  display_flip has no try/except: the exception
\* leaves through it, the statements after the raising call are not run and
\* no global is assigned.  Whether the raising call took effect in the core
\* is not known to the shim (`took`).
display_flip_raising(where, took) ==
    LET made == IF where = "end_batch"
                THEN <<Call("get_batch_renderer"), Call("end_batch")>>
                ELSE <<Call("get_batch_renderer"), Call("end_batch"),
                       Call("flush_batch")>>
        effective == IF took THEN made ELSE SubSeq(made, 1, Len(made) - 1)
    IN
    /\ window # None
    /\ get_batch_renderer
    /\ batch_started
    /\ renderer.flushes < MaxFlips
    /\ renderer' = ApplyCalls(renderer, effective)
    /\ calls' = made
    /\ lastOp' = Op("display_flip")
    /\ result' = "CoreError"
    /\ UNCHANGED <<shim, created, flip_pc, draw_pc>>

(* ---------------- display_flip beside a second thread ---------------- *)
\* display_flip (lines 162-182) takes no lock, and the interpreter may switch
\* threads between any two of its statements.  Here it runs one statement
\* at a time: flip_pc names the core call it makes next, or the assignment
\* to _batch_started it makes next ("clear_flag" is line 172, "set_flag"
\* line 182).

\* a display_flip that returns after begin_frame, without begin_batch
flip_next_NoReopen(pc) ==
    CASE pc = "end_batch" -> "flush_batch"
      [] pc = "flush_batch" -> "clear_flag"
      [] pc = "clear_flag" -> "end_frame"
      [] pc = "end_frame" -> "swap_buffers"
      [] pc = "swap_buffers" -> "begin_frame"
      [] OTHER -> "idle"

\* the statement after `pc`, lines 170-182
flip_next(pc) ==
    CASE pc = "end_batch" -> "flush_batch"
      [] pc = "flush_batch" -> "clear_flag"
      [] pc = "clear_flag" -> "end_frame"
      [] pc = "end_frame" -> "swap_buffers"
      [] pc = "swap_buffers" -> "begin_frame"
      [] pc = "begin_frame" -> IF get_batch_renderer THEN "begin_batch"
                               ELSE "idle"
      [] pc = "begin_batch" -> "set_flag"
      [] OTHER -> "idle"

\* lines 164-169: `if _window:`, the lookup of the batch renderer and the
\* test `if br and _batch_started:`
flip_enter ==
    /\ flip_pc = "idle"
    /\ window # None
    /\ renderer.swaps < MaxFlips
    /\ flip_pc' = IF get_batch_renderer /\ batch_started THEN "end_batch"
                  ELSE "end_frame"
    /\ calls' = <<Call("get_batch_renderer")>>
    /\ renderer' = ApplyCalls(renderer, calls')
    /\ lastOp' = Op("display_flip")
    /\ result' = "ok"
    /\ UNCHANGED <<shim, created, draw_pc>>

\* the next statement of the display_flip in progress: a core call, or
\* `_batch_started = False` (line 172), or `_batch_started = True`
\* (line 182)
flip_step ==
    /\ flip_pc # "idle"
    /\ calls' = IF flip_pc \in {"clear_flag", "set_flag"} THEN <<>>
                ELSE <<Call(flip_pc)>>
    /\ renderer' = ApplyCalls(renderer, calls')
    /\ batch_started' = CASE flip_pc = "clear_flag" -> FALSE
                          [] flip_pc = "set_flag" -> TRUE
                          [] OTHER -> batch_started
    /\ flip_pc' = flip_next(flip_pc)
    /\ lastOp' = Op("display_flip")
    /\ result' = "ok"
    /\ UNCHANGED <<window, window_system_guard, renderer_guard,
                   input_manager, screen_surface, screen_size, created,
                   draw_pc>>

(* ------------------------- events and input --------------------------- *)
\* The event and input functions read the module globals and call the
\* window's event queue and the input manager; they reach neither the
\* renderer nor the batch renderer, and assign no global.
Input(name, cs) ==
    /\ calls' = cs
    /\ lastOp' = Op(name)
    /\ result' = "ok"
    /\ UNCHANGED <<shim, created, renderer, flip_pc, draw_pc>>

\* event_get, lines 192-210
event_get ==
    Input("event_get",
          IF window = None \/ input_manager = None THEN <<>>
          ELSE <<Call("poll_events"), Call("update"), Call("should_close")>>)

\* event_pump, lines 212-217
event_pump ==
    Input("event_pump",
          (IF window # None THEN <<Call("poll_events")>> ELSE <<>>)
          \o (IF input_manager # None THEN <<Call("update")>> ELSE <<>>))

\* key_get_pressed, lines 219-232: wraps _input_manager, calls nothing
key_get_pressed == Input("key_get_pressed", <<>>)

\* mouse_get_pos, lines 234-239
mouse_get_pos ==
    Input("mouse_get_pos",
          IF input_manager # None THEN <<Call("get_mouse_position")>>
          ELSE <<>>)

\* mouse_get_pressed, lines 241-249
mouse_get_pressed ==
    Input("mouse_get_pressed",
          IF input_manager # None
          THEN <<Call("is_mouse_button_pressed"),
                 Call("is_mouse_button_pressed"),
                 Call("is_mouse_button_pressed")>>
          ELSE <<>>)

(* ------------------------------ drawing ------------------------------- *)
DrawOp(name, surface) == [name |-> name, surface |-> surface]

\* the surfaces a caller passes: None, a Surface that is not the display
\* surface, and the current display surface
Surfaces == {None, OffscreenSurface, screen_surface}

RECURSIVE Reverse(_)
Reverse(q) == IF q = <<>> THEN <<>> ELSE Append(Reverse(Tail(q)), Head(q))

\* a draw call that puts what it draws under what was drawn before
Draw_NewestFirst(op, cs) ==
    /\ renderer.draws < MaxDraws
    /\ renderer' = [ApplyCalls(renderer, cs) EXCEPT !.pending = Reverse(@)]
    /\ calls' = cs
    /\ lastOp' = op
    /\ result' = "ok"
    /\ UNCHANGED <<shim, created, flip_pc, draw_pc>>

\* a draw call leaves the module globals alone
Draw(op, cs) ==
    /\ renderer.draws < MaxDraws
    /\ Done(op, cs, "ok")
    /\ UNCHANGED <<shim, created>>

AddRect(x, y, w, h, id) ==
    [Call("add_rect_screen") EXCEPT !.p = Pt(x, y), !.q = Pt(w, h),
                                    !.vp = screen_size, !.id = id]

AddLine(p0, p1, t, id) ==
    [Call("add_line_screen") EXCEPT !.p = p0, !.q = p1, !.t = t,
                                    !.vp = screen_size, !.id = id]

AddCircle(c, radius, segments, id) ==
    [Call("add_circle_screen") EXCEPT !.p = c, !.q = Pt(radius, segments),
                                      !.vp = screen_size, !.id = id]

Max(a, b) == IF a >= b THEN a ELSE b

\* draw_rect that draws on the display whatever Surface it is given
rect_calls_AnySurface(surface, rect, width) ==
    IF surface # None
    THEN IF ~get_batch_renderer THEN <<Call("get_batch_renderer")>>
         ELSE LET screen_h == screen_size[2]
                  id == renderer.draws + 1
                  x == RoundFloat(rect[1])
                  w == RoundFloat(rect[3])
                  h == RoundFloat(rect[4])
                  y == FSub(FSub(RoundFloat(screen_h), RoundFloat(rect[2])),
                            h)
              IN  <<Call("get_batch_renderer")>> \o
                  (IF width <= 0
                   THEN <<AddRect(x, y, w, h, id)>>
                   ELSE <<AddLine(Pt(x, FAdd(y, h)),
                                  Pt(FAdd(x, w), FAdd(y, h)), width, id),
                          AddLine(Pt(x, y), Pt(FAdd(x, w), y), width, id),
                          AddLine(Pt(x, y), Pt(x, FAdd(y, h)), width, id),
                          AddLine(Pt(FAdd(x, w), y),
                                  Pt(FAdd(x, w), FAdd(y, h)), width, id)>>)
    ELSE \* hasattr(surface, 'fill_rect') is False for None and for a Surface
         <<>>

\* draw_rect that maps the top edge of the rectangle and forgets its height
rect_calls_TopEdge(surface, rect, width) ==
    IF surface = screen_surface
    THEN IF ~get_batch_renderer THEN <<Call("get_batch_renderer")>>
         ELSE LET screen_h == screen_size[2]
                  id == renderer.draws + 1
                  x == RoundFloat(rect[1])
                  w == RoundFloat(rect[3])
                  h == RoundFloat(rect[4])
                  y == FSub(RoundFloat(screen_h), RoundFloat(rect[2]))
              IN  <<Call("get_batch_renderer")>> \o
                  (IF width <= 0
                   THEN <<AddRect(x, y, w, h, id)>>
                   ELSE <<AddLine(Pt(x, FAdd(y, h)),
                                  Pt(FAdd(x, w), FAdd(y, h)), width, id),
                          AddLine(Pt(x, y), Pt(FAdd(x, w), y), width, id),
                          AddLine(Pt(x, y), Pt(x, FAdd(y, h)), width, id),
                          AddLine(Pt(FAdd(x, w), y),
                                  Pt(FAdd(x, w), FAdd(y, h)), width, id)>>)
    ELSE \* hasattr(surface, 'fill_rect') is False for None and for a Surface
         <<>>

\* draw_rect, lines 266-293
rect_calls(surface, rect, width) ==
    IF surface = screen_surface
    THEN IF ~get_batch_renderer THEN <<Call("get_batch_renderer")>>
         ELSE LET screen_h == screen_size[2]
                  id == renderer.draws + 1
                  x == RoundFloat(rect[1])
                  w == RoundFloat(rect[3])
                  h == RoundFloat(rect[4])
                  y == FSub(FSub(RoundFloat(screen_h), RoundFloat(rect[2])),
                            h)
              IN  <<Call("get_batch_renderer")>> \o
                  (IF width <= 0
                   THEN <<AddRect(x, y, w, h, id)>>
                   ELSE <<AddLine(Pt(x, FAdd(y, h)),
                                  Pt(FAdd(x, w), FAdd(y, h)), width, id),
                          AddLine(Pt(x, y), Pt(FAdd(x, w), y), width, id),
                          AddLine(Pt(x, y), Pt(x, FAdd(y, h)), width, id),
                          AddLine(Pt(FAdd(x, w), y),
                                  Pt(FAdd(x, w), FAdd(y, h)), width, id)>>)
    ELSE \* hasattr(surface, 'fill_rect') is False for None and for a Surface
         <<>>

\* draw_rect whose fourth line is the left edge again
rect_calls_floats_LeftTwice(surface, rect, width) ==
    IF surface = screen_surface
    THEN IF ~get_batch_renderer THEN <<Call("get_batch_renderer")>>
         ELSE LET screen_h == screen_size[2]
                  id == renderer.draws + 1
                  x == RoundDyadic(rect[1])
                  w == RoundDyadic(rect[3])
                  h == RoundDyadic(rect[4])
                  y == DFSub(DFSub(RoundDyadic(Dyadic(screen_h, 0)),
                                   RoundDyadic(rect[2])),
                             h)
              IN  <<Call("get_batch_renderer")>> \o
                  (IF width <= 0
                   THEN <<AddRect(x, y, w, h, id)>>
                   ELSE <<AddLine(Pt(x, DFAdd(y, h)),
                                  Pt(DFAdd(x, w), DFAdd(y, h)), width, id),
                          AddLine(Pt(x, y), Pt(DFAdd(x, w), y), width, id),
                          AddLine(Pt(x, y), Pt(x, DFAdd(y, h)), width, id),
                          AddLine(Pt(x, y), Pt(x, DFAdd(y, h)), width, id)>>)
    ELSE \* hasattr(surface, 'fill_rect') is False for None and for a Surface
         <<>>

\* draw_rect, lines 266-293, on a rectangle whose coordinates need not be
\* whole numbers: Rect keeps them as floats, screen_h is an integer
rect_calls_floats(surface, rect, width) ==
    IF surface = screen_surface
    THEN IF ~get_batch_renderer THEN <<Call("get_batch_renderer")>>
         ELSE LET screen_h == screen_size[2]
                  id == renderer.draws + 1
                  x == RoundDyadic(rect[1])
                  w == RoundDyadic(rect[3])
                  h == RoundDyadic(rect[4])
                  y == DFSub(DFSub(RoundDyadic(Dyadic(screen_h, 0)),
                                   RoundDyadic(rect[2])),
                             h)
              IN  <<Call("get_batch_renderer")>> \o
                  (IF width <= 0
                   THEN <<AddRect(x, y, w, h, id)>>
                   ELSE <<AddLine(Pt(x, DFAdd(y, h)),
                                  Pt(DFAdd(x, w), DFAdd(y, h)), width, id),
                          AddLine(Pt(x, y), Pt(DFAdd(x, w), y), width, id),
                          AddLine(Pt(x, y), Pt(x, DFAdd(y, h)), width, id),
                          AddLine(Pt(DFAdd(x, w), y),
                                  Pt(DFAdd(x, w), DFAdd(y, h)), width, id)>>)
    ELSE \* hasattr(surface, 'fill_rect') is False for None and for a Surface
         <<>>

draw_rect(surface, rect, width) ==
    Draw(DrawOp("draw_rect", surface), rect_calls(surface, rect, width))

draw_rect_floats(surface, rect, width) ==
    Draw(DrawOp("draw_rect", surface),
         rect_calls_floats(surface, rect, width))

\* draw_line that flips each end point a second time
line_calls_FlipsTwice(surface, start_pos, end_pos, width) ==
    IF surface = screen_surface
    THEN IF ~get_batch_renderer THEN <<Call("get_batch_renderer")>>
         ELSE LET screen_h == screen_size[2]
                  id == renderer.draws + 1
                  x0 == RoundFloat(start_pos[1])
                  x1 == RoundFloat(end_pos[1])
                  y0 == FlipY(FlipY(start_pos[2], screen_h), screen_h)
                  y1 == FlipY(FlipY(end_pos[2], screen_h), screen_h)
              IN  <<Call("get_batch_renderer"),
                    AddLine(Pt(x0, y0), Pt(x1, y1), Max(1, width), id)>>
    ELSE <<>>

\* draw_line, lines 310-324, on whole-number coordinates
line_calls(surface, start_pos, end_pos, width) ==
    IF surface = screen_surface
    THEN IF ~get_batch_renderer THEN <<Call("get_batch_renderer")>>
         ELSE LET screen_h == screen_size[2]
                  id == renderer.draws + 1
                  x0 == RoundFloat(start_pos[1])
                  x1 == RoundFloat(end_pos[1])
                  y0 == FlipY(start_pos[2], screen_h)
                  y1 == FlipY(end_pos[2], screen_h)
              IN  <<Call("get_batch_renderer"),
                    AddLine(Pt(x0, y0), Pt(x1, y1), Max(1, width), id)>>
    ELSE <<>>

\* draw_line, lines 310-324, on coordinates that need not be whole numbers
line_calls_floats(surface, start_pos, end_pos, width) ==
    IF surface = screen_surface
    THEN IF ~get_batch_renderer THEN <<Call("get_batch_renderer")>>
         ELSE LET screen_h == screen_size[2]
                  id == renderer.draws + 1
                  x0 == RoundDyadic(start_pos[1])
                  x1 == RoundDyadic(end_pos[1])
                  y0 == DFlipY(start_pos[2], screen_h)
                  y1 == DFlipY(end_pos[2], screen_h)
              IN  <<Call("get_batch_renderer"),
                    AddLine(Pt(x0, y0), Pt(x1, y1), Max(1, width), id)>>
    ELSE <<>>

draw_line(surface, start_pos, end_pos, width) ==
    Draw(DrawOp("draw_line", surface),
         line_calls(surface, start_pos, end_pos, width))

draw_line_floats(surface, start_pos, end_pos, width) ==
    Draw(DrawOp("draw_line", surface),
         line_calls_floats(surface, start_pos, end_pos, width))

\* draw_polygon that does not join the last point to the first
polygon_calls_Open(surface, points, width) ==
    IF surface = screen_surface /\ points # <<>>
    THEN IF ~get_batch_renderer THEN <<Call("get_batch_renderer")>>
         ELSE LET screen_h == screen_size[2]
                  id == renderer.draws + 1
                  n == Len(points)
                  w == IF width <= 0 THEN 1 ELSE width
                  line(i) ==
                      LET a == points[i]
                          b == points[(i % n) + 1]
                      IN  AddLine(Pt(RoundFloat(a[1]),
                                     FSub(RoundFloat(screen_h),
                                          RoundFloat(a[2]))),
                                  Pt(RoundFloat(b[1]),
                                     FSub(RoundFloat(screen_h),
                                          RoundFloat(b[2]))), w, id)
              IN  <<Call("get_batch_renderer")>> \o [i \in 1 .. n - 1 |-> line(i)]
    ELSE <<>>

\* draw_polygon, lines 339-359
polygon_calls(surface, points, width) ==
    IF surface = screen_surface /\ points # <<>>
    THEN IF ~get_batch_renderer THEN <<Call("get_batch_renderer")>>
         ELSE LET screen_h == screen_size[2]
                  id == renderer.draws + 1
                  n == Len(points)
                  w == IF width <= 0 THEN 1 ELSE width
                  line(i) ==
                      LET a == points[i]
                          b == points[(i % n) + 1]
                      IN  AddLine(Pt(RoundFloat(a[1]),
                                     FSub(RoundFloat(screen_h),
                                          RoundFloat(a[2]))),
                                  Pt(RoundFloat(b[1]),
                                     FSub(RoundFloat(screen_h),
                                          RoundFloat(b[2]))), w, id)
              IN  <<Call("get_batch_renderer")>> \o [i \in 1 .. n |-> line(i)]
    ELSE <<>>

draw_polygon(surface, points, width) ==
    Draw(DrawOp("draw_polygon", surface),
         polygon_calls(surface, points, width))

\* segments of a circle: the literal 32 of draw_circle
CircleSegments == 32

\* draw_circle that passes the centre on in screen space
circle_calls_CentreNotFlipped(surface, center, radius, width) ==
    IF surface = screen_surface
    THEN IF ~get_batch_renderer THEN <<Call("get_batch_renderer")>>
         ELSE LET screen_h == screen_size[2]
                  id == renderer.draws + 1
                  x == RoundFloat(center[1])
                  y == RoundFloat(center[2])
                  segments == CircleSegments
                  \* pts[i] for i in range(segments + 1), angle i*angle_step
                  pts == [i \in 0 .. segments |-> <<x, y, radius, i>>]
                  t == Max(1, width)
              IN  <<Call("get_batch_renderer")>> \o
                  (IF width <= 0
                   THEN <<AddCircle(Pt(x, y), RoundFloat(radius),
                                    CircleSegments, id)>>
                   ELSE [j \in 1 .. segments |->
                            AddLine(pts[j - 1], pts[j], t, id)])
    ELSE <<>>

\* draw_circle, lines 375-404
circle_calls(surface, center, radius, width) ==
    IF surface = screen_surface
    THEN IF ~get_batch_renderer THEN <<Call("get_batch_renderer")>>
         ELSE LET screen_h == screen_size[2]
                  id == renderer.draws + 1
                  x == RoundFloat(center[1])
                  y == FSub(RoundFloat(screen_h), RoundFloat(center[2]))
                  segments == CircleSegments
                  \* pts[i] for i in range(segments + 1), angle i*angle_step
                  pts == [i \in 0 .. segments |-> <<x, y, radius, i>>]
                  t == Max(1, width)
              IN  <<Call("get_batch_renderer")>> \o
                  (IF width <= 0
                   THEN <<AddCircle(Pt(x, y), RoundFloat(radius),
                                    CircleSegments, id)>>
                   ELSE [j \in 1 .. segments |->
                            AddLine(pts[j - 1], pts[j], t, id)])
    ELSE <<>>

draw_circle(surface, center, radius, width) ==
    Draw(DrawOp("draw_circle", surface),
         circle_calls(surface, center, radius, width))

\* draw_circle called with a segment count: the function takes surface,
\* color, center, radius and width only (line 361), so Python raises
\* TypeError before the body is entered
draw_circle_segments(surface, center, radius, width, segments) ==
    /\ Done(DrawOp("draw_circle", surface), <<>>, "TypeError")
    /\ UNCHANGED <<shim, created>>

\* fill_screen that flips the top edge of the screen and forgets its height
fill_calls_TopEdge ==
    <<Call("get_batch_renderer")>>
    \o (IF get_batch_renderer
        THEN <<AddRect(0, FlipY(0, screen_size[2]),
                       RoundFloat(screen_size[1]),
                       RoundFloat(screen_size[2]), renderer.draws + 1)>>
        ELSE <<>>)
    \o <<Call("clear")>>

\* fill_screen, lines 412-427
fill_calls ==
    <<Call("get_batch_renderer")>>
    \o (IF get_batch_renderer
        THEN <<AddRect(0, 0, RoundFloat(screen_size[1]),
                       RoundFloat(screen_size[2]), renderer.draws + 1)>>
        ELSE <<>>)
    \o <<Call("clear")>>

fill_screen == Draw(Op("fill_screen"), fill_calls)

(* ------------------ a draw call beside display_flip ------------------- *)
\* A draw function takes no lock either, and the interpreter may switch
\* threads between any two of its calls.  On entry it reads _screen_size
\* and the surface; `cs` are the calls it goes on to make, one at a time.
draw_enter(op, cs) ==
    /\ draw_pc.todo = <<>>
    /\ renderer.draws < MaxDraws
    /\ draw_pc' = IF cs = <<>> THEN NoDraw ELSE [op |-> op, todo |-> cs]
    /\ calls' = <<>>
    /\ lastOp' = op
    /\ result' = "ok"
    /\ UNCHANGED <<shim, created, renderer, flip_pc>>

draw_rect_enter(surface, rect, width) ==
    draw_enter(DrawOp("draw_rect", surface), rect_calls(surface, rect, width))

draw_line_enter(surface, start_pos, end_pos, width) ==
    draw_enter(DrawOp("draw_line", surface),
               line_calls(surface, start_pos, end_pos, width))

\* the next call of the draw call in progress
draw_step ==
    /\ draw_pc.todo # <<>>
    /\ calls' = <<Head(draw_pc.todo)>>
    /\ renderer' = ApplyCalls(renderer, calls')
    /\ draw_pc' = IF Tail(draw_pc.todo) = <<>> THEN NoDraw
                  ELSE [draw_pc EXCEPT !.todo = Tail(@)]
    /\ lastOp' = draw_pc.op
    /\ result' = "ok"
    /\ UNCHANGED <<shim, created, flip_pc>>

(* ------------------------------- Next --------------------------------- *)
Next ==
    \/ \E wsOk \in BOOLEAN : init(wsOk)
    \/ quit
    \/ \E size \in Sizes, fb \in FramebufferSizes, rOk \in BOOLEAN :
           display_set_mode(size, fb, rOk)
    \/ display_flip
    \/ display_update
    \/ \E s \in Surfaces, r \in Rects, w \in Widths : draw_rect(s, r, w)
    \/ \E s \in Surfaces, l \in Lines, w \in LineWidths :
           draw_line(s, l[1], l[2], w)
    \/ \E s \in Surfaces, ps \in PointLists, w \in PolygonWidths :
           draw_polygon(s, ps, w)
    \/ \E s \in Surfaces, c \in Centers, r \in Radii, w \in CircleWidths :
           draw_circle(s, c, r, w)
    \/ fill_screen

Spec == Init /\ [][Next]_vars

\* the program run against a core whose end_batch and flush_batch can raise
NextCoreFailure ==
    \/ Next
    \/ \E where \in {"end_batch", "flush_batch"}, took \in BOOLEAN :
           display_flip_raising(where, took)

SpecCoreFailure == Init /\ [][NextCoreFailure]_vars

\* the program with its event and input functions
NextWithInput ==
    \/ Next
    \/ event_get
    \/ event_pump
    \/ key_get_pressed
    \/ mouse_get_pos
    \/ mouse_get_pressed

SpecWithInput == Init /\ [][NextWithInput]_vars

(* --------------------- translation specification --------------------- *)
\* The draw functions on their own: the state after init() and a
\* display_set_mode whose window reports the framebuffer size fb, then
\* draw calls with a wide range of arguments.
AfterSetMode(fb) ==
        /\ window = 1
        /\ window_system_guard = "Ok"
        /\ renderer_guard = "Ok"
        /\ input_manager = 1
        /\ screen_surface = 1
        /\ screen_size = fb
        /\ batch_started = TRUE
        /\ created = 1
        /\ lastOp = Op("display_set_mode")
        /\ calls = <<Call("Window"), Call("show"), Call("RendererGuard"),
                     Call("get_framebuffer_size"),
                     [Call("set_viewport") EXCEPT !.q = Pt(fb[1], fb[2])],
                     Call("InputManager"), Call("begin_frame"),
                     Call("get_batch_renderer"), Call("begin_batch")>>
        /\ renderer = [frameOpen |-> TRUE, batchOpen |-> TRUE,
                       pending |-> <<>>, flushed |-> <<>>, flushes |-> 0,
                       swaps |-> 0, draws |-> 0, last |-> "begin_batch",
                       closedFrame |-> FALSE, errs |-> {}]
        /\ result = "ok"
        /\ flip_pc = "idle"
        /\ draw_pc = NoDraw

TranslatorInit == \E fb \in TViewports : AfterSetMode(fb)

TSurfaces == {OffscreenSurface, screen_surface}

TranslatorNext ==
    \/ \E s \in TSurfaces, r \in TRects, w \in TWidths : draw_rect(s, r, w)
    \/ \E s \in TSurfaces, l \in TLines, w \in TLineWidths :
           draw_line(s, l[1], l[2], w)
    \/ \E s \in TSurfaces, ps \in TPointLists, w \in TPolygonWidths :
           draw_polygon(s, ps, w)
    \/ \E s \in TSurfaces, c \in TCenters, r \in TRadii, w \in TCircleWidths :
           draw_circle(s, c, r, w)
    \/ \E s \in TSurfaces, c \in TCenters, r \in TRadii, w \in TCircleWidths,
          n \in TSegments :
           draw_circle_segments(s, c, r, w, n)

TranslatorSpec == TranslatorInit /\ [][TranslatorNext]_vars


(* ------------------ coordinate mapping specification ------------------ *)
\* draw_line and draw_rect on their own, on viewports, points and
\* rectangles that reach the precision of a float
MapperInit == \E fb \in MViewports : AfterSetMode(fb)

MapperNext ==
    \/ \E s \in TSurfaces, p0 \in MPoints, p1 \in MPoints,
          w \in MLineWidths :
           draw_line_floats(s, p0, p1, w)
    \/ \E s \in TSurfaces, r \in MRects, w \in MRectWidths :
           draw_rect_floats(s, r, w)

MapperSpec == MapperInit /\ [][MapperNext]_vars

\* two threads after a successful display_set_mode: one calls display_flip,
\* the other draw_rect and draw_line, with no lock between them; each runs
\* one core call at a time
TwoThreadsInit == \E fb \in FramebufferSizes : AfterSetMode(fb)

TwoThreadsNext ==
    \/ flip_enter
    \/ flip_step
    \/ \E s \in Surfaces, r \in Rects, w \in Widths :
           draw_rect_enter(s, r, w)
    \/ \E s \in Surfaces, l \in Lines, w \in LineWidths :
           draw_line_enter(s, l[1], l[2], w)
    \/ draw_step

TwoThreadsSpec == TwoThreadsInit /\ [][TwoThreadsNext]_vars

(* ======================= lifecycle vocabulary ========================= *)
\* FrameOpen+BatchOpen: display_set_mode has succeeded, quit has not been
\* called since, and a frame and a batch are open
FrameOpenBatchOpen ==
    /\ window # None
    /\ renderer_guard = "Ok"
    /\ batch_started
    /\ renderer.frameOpen
    /\ renderer.batchOpen

FlipNames == {"display_flip", "display_update"}
DrawNames == {"draw_rect", "draw_line", "draw_polygon", "draw_circle"}

Names(cs) == [i \in DOMAIN cs |-> cs[i].op]
IsLookup(c) == c.op = "get_batch_renderer"
IsWork(c) == ~IsLookup(c)
IsAppend(c) == c.op \in AppendOps
\* the calls that do something to the window or the renderer: all but the
\* lookup of the batch renderer object
Work(cs) == Names(SelectSeq(cs, IsWork))
Appends(cs) == SelectSeq(cs, IsAppend)
Has(cs, name) == \E i \in DOMAIN cs : cs[i].op = name
Count(cs, name) == Cardinality({i \in DOMAIN cs : cs[i].op = name})
IsPrefix(a, b) == Len(a) <= Len(b) /\ SubSeq(b, 1, Len(a)) = a

(* ============================== claims ================================ *)

\* C1: every primitive appended in FrameOpen+BatchOpen belongs to exactly
\* the batch flushed by the next display_flip: a flip taken in
\* FrameOpen+BatchOpen flushes exactly the primitives appended since the
\* previous flush (none dropped, none left for a later flip), and no other
\* call flushes anything or takes a primitive out of the open batch.
C1_DrawnIsFlushedByNextFlip ==
    [][/\ (lastOp'.name = "display_flip" /\ FrameOpenBatchOpen)
            => /\ renderer'.flushed = renderer.pending
               /\ renderer'.flushes = renderer.flushes + 1
               /\ renderer'.pending = <<>>
       /\ lastOp'.name \notin FlipNames
            => /\ renderer'.flushes = renderer.flushes
               /\ renderer'.flushed = renderer.flushed
               /\ IsPrefix(renderer.pending, renderer'.pending)]_vars

\* two flips, each flushing the draw made before it
C1_Witness ==
    /\ lastOp.name = "display_flip"
    /\ renderer.flushes = 2
    /\ renderer.flushed = <<<<2, 1>>>>
    /\ renderer.pending = <<>>

\* C2: at most one batch is open: begin_batch is never called while a
\* batch begun earlier has not been ended.
C2_AtMostOneBatchOpen == "begin_batch while open" \notin renderer.errs

\* C3: begin_frame and end_frame alternate, starting with begin_frame, and
\* swap_buffers only follows immediately an end_frame that closed a frame.
C3_FrameCallsAlternate ==
    renderer.errs \cap {"begin_frame while open", "end_frame while closed",
                        "swap without end_frame"} = {}

\* C4: a display_flip in FrameOpen+BatchOpen calls, in this order and each
\* once: end_batch, flush_batch, end_frame, swap_buffers, begin_frame,
\* begin_batch.
C4_FlipCallOrder ==
    [][(lastOp'.name = "display_flip" /\ FrameOpenBatchOpen)
          => Work(calls') = <<"end_batch", "flush_batch", "end_frame",
                              "swap_buffers", "begin_frame", "begin_batch">>
      ]_vars

C4_Witness ==
    /\ lastOp.name = "display_flip"
    /\ FrameOpenBatchOpen
    /\ Has(calls, "swap_buffers")
    /\ renderer.last = "begin_batch"

\* C5: from FrameOpen+BatchOpen, display_flip ends in FrameOpen+BatchOpen
\* (one frame open, one batch open, _batch_started True) with the
\* viewport, the window and the screen surface unchanged.
C5_FlipKeepsState ==
    [][(lastOp'.name = "display_flip" /\ FrameOpenBatchOpen)
          => /\ FrameOpenBatchOpen'
             /\ renderer'.errs = renderer.errs
             /\ screen_size' = screen_size
             /\ window' = window
             /\ screen_surface' = screen_surface]_vars

C5_Witness ==
    /\ lastOp.name = "display_flip"
    /\ FrameOpenBatchOpen
    /\ renderer.swaps = 1
    /\ renderer.errs = {}
    /\ screen_size = <<16, 12>>

\* C6: each display_flip in FrameOpen+BatchOpen does exactly one
\* swap_buffers and one flush_batch, also when nothing was drawn since the
\* previous flip: the batch it flushes is then empty.
C6_FlipSwapsAndFlushesOnce ==
    [][(lastOp'.name = "display_flip" /\ FrameOpenBatchOpen)
          => /\ Count(calls', "swap_buffers") = 1
             /\ Count(calls', "flush_batch") = 1
             /\ renderer'.swaps = renderer.swaps + 1
             /\ renderer'.flushes = renderer.flushes + 1
             /\ renderer.pending = <<>> => renderer'.flushed = <<>>]_vars

\* two flips with no draw call at all: two swaps, two empty batches
C6_Witness ==
    /\ lastOp.name = "display_flip"
    /\ renderer.draws = 0
    /\ renderer.swaps = 2
    /\ renderer.flushes = 2
    /\ renderer.flushed = <<>>

\* the identities of the primitives the calls cs append, as the id-th
\* appending draw call
Stamps(cs, id) == [k \in 1 .. Len(Appends(cs)) |-> <<id, k>>]

\* draw-call order, and emission order within one draw call
Ordered(q) ==
    \A i, j \in DOMAIN q :
        i < j => \/ q[i][1] < q[j][1]
                 \/ q[i][1] = q[j][1] /\ q[i][2] < q[j][2]

\* C7: the batch a display_flip flushes holds its primitives in the order
\* the draw calls were issued and, within one draw call, in the order they
\* were emitted; no call reorders or removes what the open batch holds.
C7_BatchKeepsDrawOrder ==
    [][/\ Has(calls', "flush_batch")
            => /\ renderer'.flushed = renderer.pending
               /\ renderer'.pending = <<>>
       /\ ~Has(calls', "flush_batch")
            => /\ renderer'.flushed = renderer.flushed
               /\ renderer'.pending =
                      renderer.pending \o Stamps(calls', renderer.draws + 1)
       /\ Ordered(renderer'.pending)
       /\ Ordered(renderer'.flushed)]_vars

\* a stroked rectangle (four lines) and then a second draw call, flushed
\* together in that order
C7_Witness ==
    /\ lastOp.name = "display_flip"
    /\ renderer.flushed =
           <<<<1, 1>>, <<1, 2>>, <<1, 3>>, <<1, 4>>, <<2, 1>>>>

\* C8: no primitive append and no flush_batch reaches the batch renderer
\* unless the lifecycle is in FrameOpen+BatchOpen.
C8_AppendsOnlyInLifecycle ==
    [][(\E i \in DOMAIN calls' :
            calls'[i].op \in AppendOps \cup {"flush_batch"})
          => FrameOpenBatchOpen]_vars

\* fill_screen after quit(): the batch renderer is gone, nothing is appended
C8_Witness ==
    /\ lastOp.name = "fill_screen"
    /\ created > 0
    /\ window = None
    /\ Has(calls, "clear")
    /\ Appends(calls) = <<>>

\* C9: a draw call before display_set_mode, with any surface, raises a
\* sequencing error and makes no renderer or batch-renderer call.
C9_DrawBeforeSetModeRaises ==
    (lastOp.name \in DrawNames /\ created = 0)
        => (result = "RuntimeError" /\ calls = <<>>)

\* C10: display_flip before display_set_mode is reported as a sequencing
\* error, makes no renderer or window call and leaves the state unchanged.
C10_FlipBeforeSetModeReported ==
    (lastOp.name = "display_flip" /\ created = 0)
        => (result = "RuntimeError" /\ calls = <<>>)

(* ============================ after quit() ============================ *)
\* Shutdown: quit() has been called after a display was created, and
\* neither init() nor display_set_mode has succeeded since
Shutdown ==
    /\ created > 0
    /\ window = None
    /\ window_system_guard = "None"

\* C11: after quit(), every draw_* call, fill_screen call and display_flip
\* call is reported as a usage error, and makes no renderer, batch-renderer
\* or window call.
C11_AfterQuitReported ==
    (lastOp.name \in DrawNames \cup {"fill_screen", "display_flip"}
        /\ Shutdown)
        => (result = "RuntimeError" /\ Work(calls) = <<>>)

\* C12: after quit() the window, the display surface, the recorded viewport
\* (_screen_size) and the batch-open flag (_batch_started) all hold the
\* values they had before initialization.
C12_QuitResetsGlobals ==
    lastOp.name = "quit"
        => /\ window = None
           /\ screen_surface = None
           /\ screen_size = <<0, 0>>
           /\ batch_started = FALSE

(* ========================== display_set_mode ========================== *)
\* Uninitialized: no window, no display surface, no renderer, and neither
\* a frame nor a batch open
Uninitialized ==
    /\ window = None
    /\ screen_surface = None
    /\ renderer_guard = "None"
    /\ ~batch_started
    /\ ~renderer.frameOpen
    /\ ~renderer.batchOpen

\* i < j < k with the calls a, b, c at these places
InOrder(cs, a, b, c) ==
    \E i, j, k \in DOMAIN cs :
        /\ i < j /\ j < k
        /\ cs[i].op = a /\ cs[j].op = b /\ cs[k].op = c

\* C13: from Uninitialized after a successful init(), a display_set_mode
\* that succeeds records the viewport, then calls begin_frame once and
\* begin_batch once, in that order, and ends in FrameOpen+BatchOpen with
\* _batch_started True and the new surface as the display surface.
C13_SetModeOpensFrameAndBatch ==
    [][(/\ lastOp'.name = "display_set_mode"
        /\ Uninitialized
        /\ window_system_guard = "Ok"
        /\ result' = "ok")
          => /\ screen_size' \in FramebufferSizes
             /\ \E i \in DOMAIN calls' :
                    /\ calls'[i].op = "set_viewport"
                    /\ calls'[i].q = Pt(screen_size'[1], screen_size'[2])
             /\ Count(calls', "begin_frame") = 1
             /\ Count(calls', "begin_batch") = 1
             /\ InOrder(calls', "set_viewport", "begin_frame", "begin_batch")
             /\ FrameOpenBatchOpen'
             /\ screen_surface' = created'
             /\ screen_surface' # None
             /\ renderer'.errs = renderer.errs
      ]_vars

C13_Witness ==
    /\ lastOp.name = "display_set_mode"
    /\ result = "ok"
    /\ created = 1
    /\ FrameOpenBatchOpen
    /\ screen_surface = 1
    /\ screen_size = <<16, 12>>
    /\ Count(calls, "begin_batch") = 1
    /\ renderer.errs = {}

\* C17: when the RendererGuard created inside display_set_mode reports not
\* initialized, the call raises at once: one RendererGuard is created (no
\* retry) and no set_viewport, begin_frame or begin_batch call is made.
C17_RendererFailureRaisesAtOnce ==
    [][(/\ lastOp'.name = "display_set_mode"
        /\ created' # created
        /\ renderer_guard' = "Failed")
          => /\ result' = "RuntimeError"
             /\ Count(calls', "RendererGuard") = 1
             /\ Count(calls', "Window") = 1
             /\ ~Has(calls', "set_viewport")
             /\ ~Has(calls', "begin_frame")
             /\ ~Has(calls', "begin_batch")
             /\ renderer'.frameOpen = renderer.frameOpen
             /\ renderer'.batchOpen = renderer.batchOpen
      ]_vars

C17_Witness ==
    /\ lastOp.name = "display_set_mode"
    /\ result = "RuntimeError"
    /\ renderer_guard = "Failed"
    /\ window # None
    /\ Names(calls) = <<"Window", "show", "RendererGuard">>

\* C18: display_set_mode without a successful init() before it, or after
\* quit() with no new init(), raises RuntimeError, creates no window, makes
\* no renderer or batch call and leaves _window, _screen_surface,
\* _screen_size and _batch_started as they were.
C18_SetModeNeedsInit ==
    [][(/\ lastOp'.name = "display_set_mode"
        /\ window_system_guard # "Ok")
          => /\ result' = "RuntimeError"
             /\ calls' = <<>>
             /\ created' = created
             /\ renderer' = renderer
             /\ UNCHANGED <<window, screen_surface, screen_size,
                            batch_started>>
      ]_vars

C18_Witness ==
    /\ lastOp.name = "display_set_mode"
    /\ result = "RuntimeError"
    /\ calls = <<>>
    /\ Shutdown
    /\ batch_started
    /\ screen_size # <<0, 0>>

\* C14: a display_set_mode call made in FrameOpen+BatchOpen is reported as
\* an error: it calls neither begin_frame nor begin_batch and leaves the
\* window, the viewport, the display surface and the batch state unchanged.
C14_SecondSetModeRejected ==
    [][(/\ lastOp'.name = "display_set_mode"
        /\ FrameOpenBatchOpen)
          => /\ result' = "RuntimeError"
             /\ ~Has(calls', "begin_frame")
             /\ ~Has(calls', "begin_batch")
             /\ renderer' = renderer
             /\ UNCHANGED <<window, screen_size, screen_surface,
                            batch_started>>
      ]_vars

(* ======================== draws and the batch ========================= *)
\* the draw functions that append at least one primitive whatever their
\* arguments (draw_polygon appends nothing for an empty point list)
PrimitiveNames == {"draw_rect", "draw_line", "draw_circle"}

\* a begin_batch call followed by an append
OpensThenAppends(cs) ==
    \E i, j \in DOMAIN cs :
        i < j /\ cs[i].op = "begin_batch" /\ IsAppend(cs[j])

\* a draw call arrives on the active surface: the step on which it is
\* entered, with a display surface in place and that surface as argument
DrawArrives ==
    /\ draw_pc.todo = <<>>
    /\ lastOp'.name \in PrimitiveNames
    /\ lastOp'.surface = screen_surface
    /\ screen_surface # None

\* C15: a draw primitive that arrives on the active surface while
\* _batch_started is False opens a batch first (begin_batch is among the
\* calls it goes on to make, before its append) and does not raise, and by
\* the time it appends _batch_started is True.
C15_DrawOpensClosedBatch ==
    [][/\ (DrawArrives /\ ~batch_started)
            => /\ result' = "ok"
               /\ OpensThenAppends(draw_pc'.todo)
       /\ (/\ lastOp'.name \in PrimitiveNames
           /\ lastOp'.surface = screen_surface
           /\ screen_surface # None
           /\ Appends(calls') # <<>>)
            => batch_started
      ]_vars

(* ===================== a flush that fails in a flip ==================== *)
\* C16: after end_batch or flush_batch has raised during display_flip the
\* lifecycle is in Shutdown: a later display_flip or draw call makes no
\* renderer, batch-renderer or window call, and the failed batch is neither
\* resumed nor flushed again.
C16_FailedFlushShutsDown ==
    [][(/\ lastOp.name = "display_flip"
        /\ result = "CoreError"
        /\ lastOp'.name \in FlipNames \cup DrawNames)
          => /\ Work(calls') = <<>>
             /\ renderer' = renderer
      ]_vars

(* ================== draws on a surface not displayed ================== *)
\* C19: a draw_rect, draw_line, draw_circle or draw_polygon call whose
\* surface is not the display surface appends nothing, raises nothing, and
\* leaves the open batch, _batch_started, the viewport and the open frame
\* as they were.
C19_OtherSurfaceIsIgnored ==
    [][(/\ lastOp'.name \in DrawNames
        /\ lastOp'.surface # screen_surface)
          => /\ calls' = <<>>
             /\ result' = "ok"
             /\ renderer' = renderer
             /\ UNCHANGED <<batch_started, screen_size, screen_surface,
                            window>>
      ]_vars

C19_Witness ==
    /\ lastOp.name = "draw_rect"
    /\ lastOp.surface = OffscreenSurface
    /\ FrameOpenBatchOpen
    /\ renderer.pending # <<>>
    /\ calls = <<>>
    /\ result = "ok"

\* C20: a draw call on a surface that is not the display surface is
\* reported to the caller as unsupported, an outcome distinct from that of
\* a draw that succeeded.
C20_OtherSurfaceReported ==
    (/\ lastOp.name \in DrawNames
     /\ lastOp.surface # screen_surface
     /\ FrameOpenBatchOpen)
        => result # "ok"

(* ============================ translation ============================= *)
\* the point (x, y) of screen space seen from the bottom-left corner of a
\* viewport of height H
Mapped(x, y, H) == Pt(x, H - y)

\* how often v occurs in the sequence q
Occurrences(q, v) == Cardinality({i \in DOMAIN q : q[i] = v})

\* C21: draw_rect on the display surface with width <= 0 appends one
\* filled rectangle and no line; its origin is (x, H - y - h) and its size
\* (w, h); viewport 800x600 and rect (100, 50, 200, 80) give origin
\* (100, 470) and size (200, 80).
C21_FilledRectIsOneAppend ==
    [][\A r \in TRects, w \in TWidths :
          (/\ w <= 0 /\ get_batch_renderer
           /\ lastOp'.name = "draw_rect"
           /\ draw_rect(screen_surface, r, w))
            => LET H == screen_size[2]
                   a == Appends(calls')
               IN  /\ Len(a) = 1
                   /\ a[1].op = "add_rect_screen"
                   /\ a[1].p = Pt(r[1], H - r[2] - r[4])
                   /\ a[1].q = Pt(r[3], r[4])
                   /\ a[1].vp = screen_size
                   /\ ~Has(calls', "add_line_screen")
      ]_vars

C21_Witness ==
    /\ lastOp.name = "draw_rect"
    /\ lastOp.surface = screen_surface
    /\ screen_size = <<800, 600>>
    /\ Len(Appends(calls)) = 1
    /\ Appends(calls)[1].op = "add_rect_screen"
    /\ Appends(calls)[1].p = Pt(100, 470)
    /\ Appends(calls)[1].q = Pt(200, 80)

\* the end points of the lines in a, mapped back to screen space by
\* y -> H - y, computed exactly
EndPointsOnScreen(a, H) ==
    [k \in 1 .. 2 * Len(a) |->
        LET c == a[(k + 1) \div 2]
            e == IF k % 2 = 1 THEN c.p ELSE c.q
        IN  <<e[1], DySub(Dyadic(H, 0), e[2])>>]

\* the corners (x, y), (x+w, y), (x, y+h), (x+w, y+h) of the rectangle r,
\* computed exactly
Corners(r) ==
    << <<r[1], r[2]>>, <<DyAdd(r[1], r[3]), r[2]>>,
       <<r[1], DyAdd(r[2], r[4])>>,
       <<DyAdd(r[1], r[3]), DyAdd(r[2], r[4])>> >>

\* the end points are the corners, each corner the end point of two lines
\* (corners that coincide are counted as often as they occur)
EachCornerTwice(ends, corners) ==
    /\ \A k \in DOMAIN ends : \E c \in DOMAIN corners : ends[k] = corners[c]
    /\ \A c \in DOMAIN corners :
           Occurrences(ends, corners[c]) = 2 * Occurrences(corners, corners[c])

\* the differences and the sum draw_rect computes for the rectangle r under
\* a viewport of height H are floats: H - y, H - y - h and x + w
RectExact(r, H) ==
    /\ Representable(DySub(Dyadic(H, 0), r[2]))
    /\ Representable(DySub(DySub(Dyadic(H, 0), r[2]), r[4]))
    /\ Representable(DyAdd(r[1], r[3]))

\* C22 as stated: for every viewport and rectangle (x, y, w, h), draw_rect
\* on the display surface with width > 0 appends four lines and no
\* rectangle; mapped back to screen space (y -> H - y) the end points of
\* the lines are exactly the corners (x, y), (x+w, y), (x, y+h), (x+w, y+h),
\* each corner the end point of two lines.
C22_StrokedRectIsFourCorners ==
    [][\A r \in MRects, w \in MRectWidths :
          (/\ w > 0 /\ get_batch_renderer
           /\ lastOp'.name = "draw_rect"
           /\ Appends(calls') # <<>>
           /\ Appends(calls')[1].p[1] = RoundDyadic(r[1])
           /\ draw_rect_floats(screen_surface, r, w))
            => LET H == screen_size[2]
                   a == Appends(calls')
               IN  /\ Len(a) = 4
                   /\ \A k \in 1 .. 4 : a[k].op = "add_line_screen"
                   /\ ~Has(calls', "add_rect_screen")
                   /\ EachCornerTwice(EndPointsOnScreen(a, H), Corners(r))
      ]_vars

\* C22, amended: draw_rect on the display surface with width > 0 appends
\* four lines and no rectangle, whose end points are the corners of one
\* rectangle with x as its left edge, each corner the end point of two
\* lines; mapped back to screen space that rectangle is exactly
\* (x, y, w, h) whenever H - y, H - y - h and x + w are floats, as they are
\* for every rectangle of whole-number coordinates.
C22_FourCornersWhereExact ==
    [][\A r \in MRects, w \in MRectWidths :
          (/\ w > 0 /\ get_batch_renderer
           /\ lastOp'.name = "draw_rect"
           /\ Appends(calls') # <<>>
           /\ Appends(calls')[1].p[1] = RoundDyadic(r[1])
           /\ draw_rect_floats(screen_surface, r, w))
            => LET H == screen_size[2]
                   a == Appends(calls')
                   lo == a[2].p
                   hi == a[1].q
               IN  /\ Len(a) = 4
                   /\ \A k \in 1 .. 4 : a[k].op = "add_line_screen"
                   /\ ~Has(calls', "add_rect_screen")
                   /\ lo[1] = r[1]
                   /\ EachCornerTwice(
                          [k \in 1 .. 8 |->
                              IF k % 2 = 1 THEN <<a[(k + 1) \div 2].p[1],
                                                  a[(k + 1) \div 2].p[2]>>
                              ELSE <<a[k \div 2].q[1], a[k \div 2].q[2]>>],
                          << <<lo[1], lo[2]>>, <<hi[1], lo[2]>>,
                             <<lo[1], hi[2]>>, <<hi[1], hi[2]>> >>)
                   /\ RectExact(r, H)
                        => EachCornerTwice(EndPointsOnScreen(a, H),
                                           Corners(r))
      ]_vars

\* a rectangle of fractional coordinates whose bottom edge, 5 - 2^-50 from
\* the bottom of the viewport, needs all 53 bits: the end points mapped
\* back are its corners
C22_Witness ==
    /\ lastOp.name = "draw_rect"
    /\ lastOp.surface = screen_surface
    /\ screen_size = <<8, 6>>
    /\ Len(Appends(calls)) = 4
    /\ Appends(calls)[2].p = Pt(Dyadic(1, -1),
                                DySub(Dyadic(5, 0), Dyadic(1, -50)))
    /\ Len(Appends(calls)[2].p[2].bits) = MantissaBits
    /\ EachCornerTwice(
           EndPointsOnScreen(Appends(calls), 6),
           Corners(<<Dyadic(1, -1), Dyadic(1, -50), Dyadic(9, -2),
                     Dyadic(1, 0)>>))

\* C23: draw_line on the display surface appends one line, from
\* (x0, H - y0) to (x1, H - y1): x is kept and y is flipped once.
C23_LineIsFlippedOnce ==
    [][\A l \in TLines, w \in TLineWidths :
          (/\ get_batch_renderer
           /\ lastOp'.name = "draw_line"
           /\ draw_line(screen_surface, l[1], l[2], w))
            => LET H == screen_size[2]
                   a == Appends(calls')
               IN  /\ Len(a) = 1
                   /\ a[1].op = "add_line_screen"
                   /\ a[1].p = Mapped(l[1][1], l[1][2], H)
                   /\ a[1].q = Mapped(l[2][1], l[2][2], H)
      ]_vars

C23_Witness ==
    /\ lastOp.name = "draw_line"
    /\ lastOp.surface = screen_surface
    /\ screen_size = <<800, 600>>
    /\ Len(Appends(calls)) = 1
    /\ Appends(calls)[1].p = Pt(1, 598)
    /\ Appends(calls)[1].q = Pt(3, 595)

\* C24: draw_circle on the display surface with width <= 0 appends one
\* filled circle with centre (cx, H - cy), the radius given and 32
\* segments, and no line.
C24_FilledCircleIsOneAppend ==
    [][\A c \in TCenters, r \in TRadii, w \in TCircleWidths :
          (/\ w <= 0 /\ get_batch_renderer
           /\ lastOp'.name = "draw_circle"
           /\ draw_circle(screen_surface, c, r, w))
            => LET H == screen_size[2]
                   a == Appends(calls')
               IN  /\ Len(a) = 1
                   /\ a[1].op = "add_circle_screen"
                   /\ a[1].p = Mapped(c[1], c[2], H)
                   /\ a[1].q = Pt(r, 32)
                   /\ ~Has(calls', "add_line_screen")
      ]_vars

C24_Witness ==
    /\ lastOp.name = "draw_circle"
    /\ lastOp.surface = screen_surface
    /\ result = "ok"
    /\ screen_size = <<800, 600>>
    /\ Len(Appends(calls)) = 1
    /\ Appends(calls)[1].op = "add_circle_screen"
    /\ Appends(calls)[1].p = Pt(400, 300)
    /\ Appends(calls)[1].q = Pt(50, 32)

(* ------------------------- outline circles ---------------------------- *)
\* <<x, y, r, k>> and <<x', y', r', k'>> are the same point of the plane
SamePoint(p, q) ==
    /\ p[1] = q[1]
    /\ p[2] = q[2]
    /\ \/ p[3] = 0 /\ q[3] = 0
       \/ p[3] = q[3] /\ (p[4] - q[4]) % CircleSegments = 0

\* each line of a ends where the next begins, the last where the first
\* begins
ChainClosed(a) ==
    \A k \in DOMAIN a : SamePoint(a[k].q, a[(k % Len(a)) + 1].p)

\* C25: an outline circle (width > 0) drawn with a segment count n chosen
\* by the caller appends n lines and no circle, and the lines form a closed
\* chain.
C25_OutlineCircleHasChosenSegments ==
    [][\A c \in TCenters, r \in TRadii, w \in TCircleWidths, n \in TSegments :
          (/\ w > 0 /\ get_batch_renderer
           /\ lastOp'.name = "draw_circle"
           /\ draw_circle_segments(screen_surface, c, r, w, n))
            => LET a == Appends(calls')
               IN  /\ result' = "ok"
                   /\ Len(a) = n
                   /\ \A k \in DOMAIN a : a[k].op = "add_line_screen"
                   /\ ~Has(calls', "add_circle_screen")
                   /\ ChainClosed(a)
      ]_vars

\* C26: line i of an outline circle (i = 0 .. n-1) starts at the screen
\* sample of angle i*2*pi/n mapped on its own:
\* (cx + r*cos(i*2*pi/n), H - (cy + r*sin(i*2*pi/n))), which is the point
\* of angle -i*2*pi/n around the mapped centre (cx, H - cy).
C26_OutlineSamplesMappedOneByOne ==
    [][\A c \in TCenters, r \in TRadii, w \in TCircleWidths :
          (/\ w > 0 /\ get_batch_renderer
           /\ lastOp'.name = "draw_circle"
           /\ draw_circle(screen_surface, c, r, w))
            => LET H == screen_size[2]
                   a == Appends(calls')
                   n == Len(a)
               IN  \A i \in 0 .. n - 1 :
                       SamePoint(a[i + 1].p,
                                 <<c[1], H - c[2], r,
                                   (CircleSegments - i) % CircleSegments>>)
      ]_vars

(* ------------------------------ polygons ------------------------------ *)
\* C27: draw_polygon on the display surface with n >= 1 points and
\* width > 0 appends n lines in point order, the i-th from mapped point i
\* to mapped point (i+1) mod n, each point mapped as (x, H - y); with no
\* point it emits nothing.
C27_PolygonIsClosedOutline ==
    [][\A ps \in TPointLists, w \in TPolygonWidths :
          (/\ w > 0 /\ get_batch_renderer
           /\ lastOp'.name = "draw_polygon"
           /\ draw_polygon(screen_surface, ps, w))
            => LET H == screen_size[2]
                   a == Appends(calls')
                   n == Len(ps)
               IN  IF n = 0 THEN calls' = <<>>
                   ELSE /\ Len(a) = n
                        /\ ~Has(calls', "add_rect_screen")
                        /\ ~Has(calls', "add_circle_screen")
                        /\ \A i \in 1 .. n :
                             /\ a[i].op = "add_line_screen"
                             /\ a[i].p = Mapped(ps[i][1], ps[i][2], H)
                             /\ a[i].q = Mapped(ps[(i % n) + 1][1],
                                                ps[(i % n) + 1][2], H)
                             /\ a[i].t = w
      ]_vars

C27_Witness ==
    /\ lastOp.name = "draw_polygon"
    /\ lastOp.surface = screen_surface
    /\ screen_size = <<800, 600>>
    /\ Len(Appends(calls)) = 4
    /\ Appends(calls)[1].t = 2
    /\ Appends(calls)[1].p = Pt(100, 550)
    /\ Appends(calls)[4].p = Pt(100, 470)
    /\ Appends(calls)[4].q = Pt(100, 550)

\* C28: draw_polygon in fill mode (width <= 0) is unsupported and is not
\* approximated: it appends no outline line in place of the fill.
C28_FilledPolygonNotApproximated ==
    [][\A ps \in TPointLists, w \in TPolygonWidths :
          (/\ w <= 0
           /\ lastOp'.name = "draw_polygon"
           /\ draw_polygon(screen_surface, ps, w))
            => ~Has(calls', "add_line_screen")
      ]_vars

(* ============================ the viewport ============================ *)
InputNames == {"event_get", "event_pump", "key_get_pressed",
               "mouse_get_pos", "mouse_get_pressed"}

\* C30: _screen_size is changed by display_set_mode only: display_flip,
\* display_update, the draw_* functions, fill_screen and the event and
\* input functions leave it as it is.
C30_OnlySetModeChangesViewport ==
    [][/\ screen_size' # screen_size
          => (lastOp'.name = "display_set_mode" /\ result' = "ok")
       /\ lastOp'.name \in FlipNames \cup DrawNames \cup InputNames
                           \cup {"fill_screen"}
          => screen_size' = screen_size
      ]_vars

C30_Witness ==
    /\ lastOp.name = "mouse_get_pos"
    /\ calls # <<>>
    /\ screen_size = <<16, 12>>
    /\ renderer.swaps >= 1
    /\ renderer.draws >= 1

(* ======================== the mapping, twice ========================== *)
\* the mapping of the draw functions, (x, y) -> (x, h - y), applied to a
\* point they emitted
MapAgain(p, h) == Pt(RoundDyadic(p[1]), DFlipY(p[2], h))

InViewport(p, h) == DyLeq(Dyadic(0, 0), p[2]) /\ DyLeq(p[2], Dyadic(h, 0))

\* h - y, exactly
Below(h, y) == DySub(Dyadic(h, 0), y)

\* C29 as stated: for every viewport (w, h) and point (x, y) with
\* 0 <= y <= h the mapping (x, y) -> (x, h - y) of the draw functions,
\* applied twice with the same viewport, returns (x, y).
C29_MappingIsSelfInverse ==
    [][\A p0 \in MPoints, p1 \in MPoints, w \in MLineWidths :
          (/\ get_batch_renderer
           /\ lastOp'.name = "draw_line"
           /\ Appends(calls') # <<>>
           /\ Appends(calls')[1].p[1] = RoundDyadic(p0[1])
           /\ Appends(calls')[1].q[1] = RoundDyadic(p1[1])
           /\ InViewport(p0, screen_size[2])
           /\ InViewport(p1, screen_size[2])
           /\ draw_line_floats(screen_surface, p0, p1, w))
            => LET h == screen_size[2]
                   a == Appends(calls')
               IN  /\ MapAgain(a[1].p, h) = Pt(p0[1], p0[2])
                   /\ MapAgain(a[1].q, h) = Pt(p1[1], p1[2])
      ]_vars

\* C29, amended: applied twice, the mapping returns x always, and y
\* whenever h - y is a float, as it is for all whole-number pixel
\* coordinates inside a viewport.
C29_SelfInverseWhereExact ==
    [][\A p0 \in MPoints, p1 \in MPoints, w \in MLineWidths :
          (/\ get_batch_renderer
           /\ lastOp'.name = "draw_line"
           /\ Appends(calls') # <<>>
           /\ Appends(calls')[1].p[1] = RoundDyadic(p0[1])
           /\ Appends(calls')[1].q[1] = RoundDyadic(p1[1])
           /\ InViewport(p0, screen_size[2])
           /\ InViewport(p1, screen_size[2])
           /\ draw_line_floats(screen_surface, p0, p1, w))
            => LET h == screen_size[2]
                   a == Appends(calls')
               IN  /\ MapAgain(a[1].p, h)[1] = p0[1]
                   /\ MapAgain(a[1].q, h)[1] = p1[1]
                   /\ Representable(Below(h, p0[2]))
                        => MapAgain(a[1].p, h) = Pt(p0[1], p0[2])
                   /\ Representable(Below(h, p1[2]))
                        => MapAgain(a[1].q, h) = Pt(p1[1], p1[2])
      ]_vars

\* a point of whole coordinates and one whose h - y needs all 53 bits, each
\* returned by the second application
C29_Witness ==
    /\ lastOp.name = "draw_line"
    /\ lastOp.surface = screen_surface
    /\ screen_size = <<8, 6>>
    /\ Len(Appends(calls)) = 1
    /\ Appends(calls)[1].p = Pt(Dyadic(3, 0), Dyadic(1, 0))
    /\ MapAgain(Appends(calls)[1].p, 6) = Pt(Dyadic(3, 0), Dyadic(5, 0))
    /\ Appends(calls)[1].q[2] = Below(6, Dyadic(1, -50))
    /\ Len(Appends(calls)[1].q[2].bits) = MantissaBits
    /\ MapAgain(Appends(calls)[1].q, 6) = Pt(Dyadic(1, -1), Dyadic(1, -50))

(* ===================== the viewport of an append ====================== *)
\* C31: every append of a draw call carries, and is translated with, the
\* viewport current at the call: the framebuffer size the window reported
\* in the most recent successful display_set_mode, not the size asked for
\* and not the viewport of an earlier display_set_mode.
C31_AppendsUseCurrentViewport ==
    [][/\ \A size \in Sizes, fb \in FramebufferSizes :
             (/\ lastOp'.name = "display_set_mode"
              /\ result' = "ok"
              /\ display_set_mode(size, fb, TRUE))
               => screen_size' = fb
       /\ lastOp'.name \in DrawNames \cup {"fill_screen"}
             => \A i \in DOMAIN calls' :
                    IsAppend(calls'[i]) => calls'[i].vp = screen_size
       /\ \A r \in Rects, w \in Widths :
             (/\ w <= 0 /\ get_batch_renderer
              /\ lastOp'.name = "draw_rect"
              /\ draw_rect(screen_surface, r, w))
               => Appends(calls')[1].p
                    = Pt(r[1], screen_size[2] - r[2] - r[4])
       /\ \A l \in Lines, w \in LineWidths :
             (/\ get_batch_renderer
              /\ lastOp'.name = "draw_line"
              /\ draw_line(screen_surface, l[1], l[2], w))
               => /\ Appends(calls')[1].p
                       = Mapped(l[1][1], l[1][2], screen_size[2])
                  /\ Appends(calls')[1].q
                       = Mapped(l[2][1], l[2][2], screen_size[2])
      ]_vars

\* a draw after a second display_set_mode whose window reports a
\* framebuffer twice the size asked for
C31_Witness ==
    /\ lastOp.name = "draw_rect"
    /\ lastOp.surface = screen_surface
    /\ created = 2
    /\ screen_size = <<16, 12>>
    /\ Len(Appends(calls)) = 1
    /\ Appends(calls)[1].vp = <<16, 12>>
    /\ Appends(calls)[1].p = Pt(1, 8)

(* ==================== a display_set_mode that failed ================== *)
\* the renderer failed to initialize in the first display_set_mode: no
\* display surface, no frame or batch was ever opened
AfterRendererFailure ==
    /\ renderer_guard = "Failed"
    /\ screen_surface = None
    /\ ~batch_started
    /\ ~renderer.frameOpen
    /\ ~renderer.batchOpen
    /\ renderer.swaps = 0

\* C34: after display_set_mode has failed with a renderer initialization
\* error the lifecycle is still Uninitialized: a display_flip makes no
\* end_frame, swap_buffers, begin_frame or batch call, and a draw call
\* appends nothing.
C34_FailedSetModeStaysUninitialized ==
    [][(/\ AfterRendererFailure
        /\ lastOp'.name \in FlipNames \cup DrawNames)
          => /\ Work(calls') = <<>>
             /\ renderer'.frameOpen = renderer.frameOpen
             /\ renderer'.swaps = renderer.swaps
      ]_vars

(* ================== the flag and the batch renderer =================== *)
\* the batch renderer has received a begin_batch with no later end_batch
BatchReallyOpen == get_batch_renderer /\ renderer.batchOpen

\* C35: after every public operation _batch_started is True exactly when
\* the batch renderer has received a begin_batch with no later end_batch.
C35_FlagAgreesWithBatch == batch_started <=> BatchReallyOpen

(* =============================== init ================================= *)
\* C37: init() returns True only when the window system guard reports
\* initialized; after an init() that raised, the next init() raises again.
C37_InitTrueOnlyWhenInitialized ==
    (lastOp.name = "init" /\ result = "ok") => window_system_guard = "Ok"

(* ============================ fill_screen ============================= *)
\* C38: with a frame and a batch open and the viewport (W, H), fill_screen
\* appends exactly one filled rectangle with origin (0, 0) and size (W, H)
\* to the open batch, the rectangle draw_rect appends for the screen-space
\* rectangle (0, 0, W, H), and leaves the viewport, the batch flag and the
\* frame state as they were.
C38_FillScreenAppendsViewportRect ==
    [][(FrameOpenBatchOpen /\ lastOp'.name = "fill_screen")
          => LET W == screen_size[1]
                 H == screen_size[2]
                 a == Appends(calls')
             IN  /\ Len(a) = 1
                 /\ a[1].op = "add_rect_screen"
                 /\ a[1].p = Pt(0, 0)
                 /\ a[1].q = Pt(W, H)
                 /\ a[1].vp = <<W, H>>
                 /\ a = Appends(rect_calls(screen_surface, <<0, 0, W, H>>, 0))
                 /\ renderer'.pending
                      = Append(renderer.pending,
                               Stamp(renderer.pending, a[1].id))
                 /\ renderer'.flushes = renderer.flushes
                 /\ renderer'.swaps = renderer.swaps
                 /\ renderer'.frameOpen /\ renderer'.batchOpen
                 /\ UNCHANGED <<screen_size, batch_started>>
      ]_vars

C38_Witness ==
    /\ lastOp.name = "fill_screen"
    /\ FrameOpenBatchOpen
    /\ screen_size = <<16, 12>>
    /\ Len(Appends(calls)) = 1
    /\ Appends(calls)[1].q = Pt(16, 12)
    /\ Len(renderer.pending) = 2

(* ================================ quit ================================ *)
\* quit() has been called and no display_set_mode has created a window since
DisplayGone == created > 0 /\ window = None

\* the calls that close and submit a batch and present a frame
SubmitNames == {"end_batch", "flush_batch", "end_frame", "swap_buffers"}

\* the display is set up (again): a display_set_mode that created a window
SetsUpDisplay == lastOp'.name = "display_set_mode" /\ window' # None

\* C36: quit() makes no renderer, batch-renderer or window call, so what was
\* appended after the last display_flip is still unflushed when quit()
\* returns, and no operation called after quit() flushes it: display_flip
\* finds no window and returns.  (A display_set_mode that sets the display
\* up again starts another life of the renderer.)
C36_QuitFlushesNothing ==
    [][/\ lastOp'.name = "quit"
            => /\ calls' = <<>>
               /\ renderer' = renderer
       /\ (DisplayGone /\ ~SetsUpDisplay)
            => /\ \A n \in SubmitNames : ~Has(calls', n)
               /\ renderer'.pending = renderer.pending
               /\ renderer'.flushes = renderer.flushes
               /\ renderer'.swaps = renderer.swaps
      ]_vars

C36_Witness ==
    /\ lastOp.name \in FlipNames
    /\ DisplayGone
    /\ renderer.pending # <<>>
    /\ renderer.flushes = 0
    /\ calls = <<>>

(* =================== the direct renderer's protocol =================== *)
\* One frame of the programs that drive the renderer without the shim
\* (visual_test.py and the render loop of physics_visual.py), as the calls
\* they make to begin_frame, begin_batch, the add_*_screen functions
\* ("append"), end_batch, flush_batch, end_frame and swap_buffers, for a
\* frame that appends k primitives.
DirectFrameProtocol(k) ==
    <<"begin_frame", "begin_batch">>
    \o [i \in 1..k |-> "append"]
    \o <<"end_batch", "flush_batch", "end_frame", "swap_buffers">>

ProtocolNames == {"begin_frame", "begin_batch", "end_batch", "flush_batch",
                  "end_frame", "swap_buffers"}
InProtocol(c) == c.op \in ProtocolNames \cup AppendOps

RECURSIVE AsProtocol(_)
AsProtocol(cs) ==
    IF cs = <<>> THEN <<>>
    ELSE <<IF IsAppend(Head(cs)) THEN "append" ELSE Head(cs).op>>
         \o AsProtocol(Tail(cs))

\* the calls of an operation projected onto the protocol's alphabet
Project(cs) == AsProtocol(SelectSeq(cs, InProtocol))

\* C33: every frame driven through the shim makes the calls of the direct
\* protocol.  A frame is the tail of display_set_mode or of a display_flip
\* (begin_frame, begin_batch), the appends of the draw calls that follow,
\* and the head of the next display_flip (end_batch, flush_batch,
\* end_frame, swap_buffers): display_set_mode and each flip leave the
\* frame and the batch open, a draw call there makes appends only and puts
\* them in the batch, and the flip that ends a frame of k appends makes,
\* with the tail that began it, the calls DirectFrameProtocol(k) and
\* flushes those k appends.
C33_FrameFollowsDirectProtocol ==
    [][/\ (lastOp'.name = "display_set_mode" /\ result' = "ok")
            => /\ Project(calls') = SubSeq(DirectFrameProtocol(0), 1, 2)
               /\ FrameOpenBatchOpen'
       /\ (FrameOpenBatchOpen /\ lastOp'.name \in DrawNames \cup {"fill_screen"})
            => /\ \A i \in DOMAIN Project(calls') :
                      Project(calls')[i] = "append"
               /\ Len(renderer'.pending)
                    = Len(renderer.pending) + Len(Project(calls'))
               /\ IsPrefix(renderer.pending, renderer'.pending)
               /\ FrameOpenBatchOpen'
       /\ (FrameOpenBatchOpen /\ lastOp'.name \in FlipNames)
            => LET k == Len(renderer.pending)
                   made == Project(calls')
               IN  /\ Len(made) = 6
                   /\ SubSeq(made, 5, 6)
                        \o [i \in 1..k |-> "append"]
                        \o SubSeq(made, 1, 4)
                      = DirectFrameProtocol(k)
                   /\ renderer'.flushed = renderer.pending
                   /\ renderer'.pending = <<>>
                   /\ FrameOpenBatchOpen'
      ]_vars

\* a frame of two appends has been ended by display_flip
C33_Witness ==
    /\ lastOp.name \in FlipNames
    /\ FrameOpenBatchOpen
    /\ Len(renderer.flushed) = 2
    /\ Project(calls) = <<"end_batch", "flush_batch", "end_frame",
                          "swap_buffers", "begin_frame", "begin_batch">>

(* ======================= a second drawing thread ====================== *)
\* display_flip has made its end_batch and not yet its begin_batch
FlipBetweenBatches ==
    flip_pc \in {"flush_batch", "clear_flag", "end_frame", "swap_buffers",
                 "begin_frame", "begin_batch"}

\* a draw call appends while the batch renderer has no batch open
AppendsOutsideBatch ==
    /\ lastOp'.name \in DrawNames
    /\ Appends(calls') # <<>>
    /\ ~renderer.batchOpen

\* C32: nothing keeps a second thread's draw call out of a display_flip in
\* progress: an append can reach the batch renderer after the flip's
\* end_batch and before its begin_batch, while no batch is open.  It
\* happens only there: a draw call made while no display_flip is in
\* progress, as every draw call of a single thread is, finds a batch open.
C32_AppendOutsideBatchOnlyInsideFlip ==
    [][/\ AppendsOutsideBatch => FlipBetweenBatches
       /\ (lastOp'.name \in DrawNames /\ Appends(calls') # <<>>
           /\ flip_pc = "idle")
            => /\ renderer.batchOpen
               /\ batch_started
      ]_vars

\* the interleaving: the flip has flushed, the frame is not begun again,
\* and the other thread's draw_line has just appended
C32_Witness ==
    /\ lastOp.name = "draw_line"
    /\ Appends(calls) # <<>>
    /\ flip_pc \in {"end_frame", "swap_buffers", "begin_frame", "begin_batch"}
    /\ ~renderer.batchOpen
    /\ ~batch_started
    /\ renderer.flushes = 1
    /\ renderer.pending # <<>>

====
